---- MODULE Spec2Model ----
(***************************************************************************)
(* Model of the accessibility test suite: the chapter classifier and the   *)
(* per-chapter bucketing of audit records (run-tests.js, checklists.js),   *)
(* the remediation catalog and the fix-order score (remediation-data.js),  *)
(* the developer and client presentations built from the fix-order list    *)
(* (generate-presentations), the custom checks and the loop of main over   *)
(* the submitted URLs (run-tests.js), the score, the disability statistics *)
(* and the alerts of the technical report (generate-report), and the jobs  *)
(* and the manual-progress endpoints of the web server (server.js).        *)
(***************************************************************************)
EXTENDS Integers, Sequences, FiniteSets, TLC

VARIABLES
    violation,      \* categorizeAxeViolation: the audit record it is called with
    chapters,       \* categorizeAxeViolation: the array it returned
    categorized,    \* categorizeAxeViolation has returned
    results,        \* runAxeScan: what the audit library's analyze() returned
    axeData,        \* runAxeScan: the object it returned
    scanned,        \* runAxeScan has returned
    checkId,        \* getRemediation: its first argument
    axeRuleId,      \* getRemediation: its second argument
    entry,          \* getRemediation: the entry it returned
    looked,         \* getRemediation has returned
    item,           \* fixOrderScore: the item it is called with
    score,          \* fixOrderScore: the number it returned
    scored,         \* fixOrderScore has returned
    reportData,     \* the RunReport the deliverables are generated from
    fixOrderItems,  \* data.fixOrderItems
    step,           \* position in building and generating the deliverables
    developers,     \* generateDeveloperAdvice: the issue blocks it rendered
    client,         \* generateClientPresentation: the items of the 3 phases
    statement,      \* generateAccessibilityStatement: the known limitations
    counts,         \* generateReport: pass, fail, warn and totalAxeViolations
    scoreCard,      \* generateReport: the score and scoreClamp it computed
    page,           \* runCustomChecks: the page, as what each adapter does on it
    allResults,     \* runCustomChecks: the results collected so far
    chapterNo,      \* runCustomChecks: index of the next chapter of its loop
    submitted,      \* main: the URLs to test, from getUrls()
    urlNo,          \* main: index of the URL the loop is at
    pc,             \* main: the statement it is at
    report,         \* main: the report object
    iter,           \* main: axeData and customData of the current iteration
    context,        \* main: contexts opened and not closed by context.close()
    browser,        \* main: the browser is open
    persisted,      \* accessibility-results.json: the texts written, in order
    htmlReports,    \* accessibility-report.html: the reports main had rendered
    genData,        \* generateReport: the reportData it is called with
    disabilityStats,\* generateReport: the count of each disability category
    genPc,          \* generateReport: the statement it is at
    genIdx,         \* generateReport: index in the array it is looping over
    html,           \* generateReport: the alert and the sections it rendered
    runStatus,      \* server: the in-memory Map of run statuses, by job id
    child,          \* server: every job's child process
    poll,           \* server: pollForReport calls made for every job
    timer,          \* server: the jobs with a pollForReport timer pending
    fallback,       \* server: every job's fallback report generation
    reportFiles,    \* reports/<id>/accessibility-report.html: ids that have it
    resultsFiles,   \* reports/<id>/accessibility-results.json: ids that have it
    statusResponse, \* server: the last answer of GET /api/status/:id
    ftp,            \* server: FTP_CONFIG is set
    localProgress,  \* reports/<id>/manual-progress.json of the report
    remoteProgress, \* the same file on the FTP server
    uploading,      \* server: an ftpUpload of the file is in flight
    lastPut,        \* the array of the last PUT that was answered ok
    progressResponse, \* the last answer of the manual-progress endpoints
    checkboxes      \* report page: the checkboxes of the manual checklist

classifyVars == <<violation, chapters, categorized>>
scanVars == <<results, axeData, scanned>>
remediationVars == <<checkId, axeRuleId, entry, looked>>
scoreVars == <<item, score, scored>>
deliverVars == <<reportData, fixOrderItems, step, developers, client, statement>>
pipelineVars == <<classifyVars, scanVars, remediationVars, scoreVars, deliverVars>>
calcVars == <<counts, scoreCard>>
checksVars == <<page, allResults, chapterNo>>
runVars ==
    <<submitted, urlNo, pc, report, iter, context, browser, persisted, htmlReports>>
genVars == <<genData, disabilityStats, genPc, genIdx, html>>
reportVars == <<calcVars, checksVars, runVars, genVars>>
jobVars ==
    <<runStatus, child, poll, timer, fallback, reportFiles, resultsFiles,
      statusResponse>>
progressVars ==
    <<ftp, localProgress, remoteProgress, uploading, lastPut, progressResponse,
      checkboxes>>
serverVars == <<jobVars, progressVars>>

vars == <<violation, chapters, categorized, results, axeData, scanned,
          checkId, axeRuleId, entry, looked, item, score, scored,
          reportData, fixOrderItems, step, developers, client, statement,
          counts, scoreCard, page, allResults, chapterNo,
          submitted, urlNo, pc, report, iter, context, browser, persisted,
          htmlReports,
          genData, disabilityStats, genPc, genIdx, html,
          runStatus, child, poll, timer, fallback, reportFiles, resultsFiles,
          statusResponse,
          ftp, localProgress, remoteProgress, uploading, lastPut,
          progressResponse, checkboxes>>

(***************************************************************************)
(* Bounds of the model.                                                    *)
(***************************************************************************)
MaxTags == 2        \* longest tag list of a record given to the classifier
MaxRecords == 2     \* most audit records one analyze() call returns
MaxItems == 2       \* longest fixOrderItems list handed to the deliverables
MaxResults == 3     \* most CheckResults in reportData.customResults
MaxViolations == 1  \* most audit violations of one URL in reportData
MaxPass == 23       \* largest summary.pass the score is computed from
MaxFail == 17       \* largest summary.fail the score is computed from
MaxWarn == 1        \* largest summary.warn the score is computed from
MaxAxe == 1         \* largest totalAxeViolations the score is computed from
MaxUrls == 2        \* most URLs submitted to one run
MaxGenUrls == 2     \* most URLs of a report given to generateReport

(***************************************************************************)
(* Helpers for JavaScript arrays and insertion-ordered Sets.               *)
(***************************************************************************)
Range(s) == {s[i] : i \in 1..Len(s)}

SeqsUpTo(S, n) == UNION {[1..k -> S] : k \in 0..n}

\* Set.prototype.add: a value already present keeps its place.
SetAdd(s, c) == IF c \in Range(s) THEN s ELSE Append(s, c)

RECURSIVE SetAddAll(_, _)
SetAddAll(s, cs) ==
    IF cs = <<>> THEN s ELSE SetAddAll(SetAdd(s, Head(cs)), Tail(cs))

(***************************************************************************)
(* checklists.js: the chapter taxonomy and the tag-to-chapter table.       *)
(***************************************************************************)
\* Object.keys(CHECKLIST_CHAPTERS), in declaration order.
CHECKLIST_CHAPTERS ==
    <<"semantics", "images", "visualDesign", "responsive",
      "multimedia", "inputMethods", "forms", "dynamicUpdates">>

AXE_TAG_TO_CHAPTER ==
       ("wcag2a" :> <<"semantics", "images", "forms", "inputMethods">>)
    @@ ("wcag2aa" :> <<"semantics", "images", "visualDesign", "forms", "inputMethods">>)
    @@ ("wcag21a" :> <<"semantics", "images", "forms", "inputMethods">>)
    @@ ("wcag21aa" :> <<"semantics", "images", "visualDesign", "forms", "inputMethods">>)
    @@ ("wcag22aa" :> <<"semantics", "images", "visualDesign", "forms", "inputMethods">>)
    @@ ("best-practice" :> <<"semantics", "images", "forms", "inputMethods", "dynamicUpdates">>)
    @@ ("cat.semantics" :> <<"semantics">>)
    @@ ("cat.name-role-value" :> <<"semantics", "forms", "inputMethods">>)
    @@ ("cat.structure" :> <<"semantics">>)
    @@ ("cat.color" :> <<"visualDesign">>)
    @@ ("cat.parsing" :> <<"semantics">>)
    @@ ("cat.aria" :> <<"semantics", "forms", "inputMethods", "dynamicUpdates">>)
    @@ ("cat.forms" :> <<"forms">>)
    @@ ("cat.keyboard" :> <<"inputMethods">>)
    @@ ("cat.focus" :> <<"inputMethods", "semantics">>)
    @@ ("cat.language" :> <<"semantics">>)
    @@ ("cat.text-alternatives" :> <<"images">>)
    @@ ("cat.time-based-media" :> <<"multimedia">>)
    @@ ("cat.sensory-and-visual-cues" :> <<"visualDesign">>)
    @@ ("cat.layout" :> <<"responsive", "visualDesign">>)
    @@ ("cat.motion" :> <<"multimedia">>)

\* The keys of the table, and two tags the audit library puts on its rules
\* that the table has no row for.
AllTags == DOMAIN AXE_TAG_TO_CHAPTER \cup {"experimental", "section508"}

(***************************************************************************)
(* run-tests.js: categorizeAxeViolation.                                   *)
(***************************************************************************)
\* violation.tags || []
TagsOf(v) == IF "tags" \in DOMAIN v THEN v.tags ELSE <<>>

\* tags.forEach: a tag without a row leaves the Set alone.
RECURSIVE CategorizeTags(_, _)
CategorizeTags(tags, set) ==
    IF tags = <<>> THEN set
    ELSE CategorizeTags(Tail(tags),
            IF Head(tags) \in DOMAIN AXE_TAG_TO_CHAPTER
            THEN SetAddAll(set, AXE_TAG_TO_CHAPTER[Head(tags)])
            ELSE set)

\* A classifier that lacks the fallback of line 64.
CategorizeNoFallback(v) == CategorizeTags(TagsOf(v), <<>>)

\* A classifier that stops at the first tag that has a row.
RECURSIVE FirstKnownTag(_)
FirstKnownTag(tags) ==
    IF tags = <<>> THEN <<>>
    ELSE IF Head(tags) \in DOMAIN AXE_TAG_TO_CHAPTER
         THEN AXE_TAG_TO_CHAPTER[Head(tags)]
         ELSE FirstKnownTag(Tail(tags))

CategorizeFirstTagOnly(v) ==
    LET set == FirstKnownTag(TagsOf(v))
    IN  IF Len(set) = 0 THEN <<"semantics">> ELSE set

categorizeAxeViolation(v) ==
    LET set == CategorizeTags(TagsOf(v), <<>>)
    IN  IF Len(set) = 0 THEN <<"semantics">> ELSE set

(***************************************************************************)
(* The classifier on its own: every record with at most MaxTags tags, and  *)
(* the record without a tags field.                                        *)
(***************************************************************************)
\* on: the classifier is about to be called; otherwise it is at rest.
InitClassify(on) ==
    /\ violation \in
          {[id |-> "rule"]} \cup
          (IF on THEN {[id |-> "rule", tags |-> t] : t \in SeqsUpTo(AllTags, MaxTags)}
                 ELSE {})
    /\ chapters = <<>>
    /\ categorized = FALSE

CategorizeAxeViolation ==
    /\ ~categorized
    /\ chapters' = categorizeAxeViolation(violation)
    /\ categorized' = TRUE
    /\ UNCHANGED violation
    /\ UNCHANGED <<scanVars, remediationVars, scoreVars, deliverVars, reportVars, serverVars>>

KnownTags(v) == Range(TagsOf(v)) \cap DOMAIN AXE_TAG_TO_CHAPTER

\* C3: for every tag list (absent, empty, all unknown, mixed) the classifier
\* returns at least one chapter, and exactly the one chapter "semantics"
\* when no tag of the record is a key of the tag-to-chapter table.
C3_ClassifyNonEmpty ==
    categorized =>
        /\ Len(chapters) > 0
        /\ KnownTags(violation) = {} => chapters = <<"semantics">>

\* The classifier has returned for a record all of whose tags are unknown.
C3_Witness ==
    /\ categorized
    /\ Len(TagsOf(violation)) = MaxTags
    /\ KnownTags(violation) = {}
    /\ chapters = <<"semantics">>

\* C6: when some tag of the record is a key of the table, the classifier
\* returns, without repetition, exactly the union of the chapter lists of the
\* record's known tags: a function of the set of tags alone, so unknown tags,
\* the order and the repetition of the tags do not matter.
C6_ClassifyUnion ==
    (categorized /\ KnownTags(violation) # {}) =>
        /\ Range(chapters) =
              UNION {Range(AXE_TAG_TO_CHAPTER[t]) : t \in KnownTags(violation)}
        /\ \A i, j \in 1..Len(chapters) : chapters[i] = chapters[j] => i = j

\* The classifier has returned for a record with an unknown tag and a known
\* tag whose chapters the other known tags do not cover.
C6_Witness ==
    /\ categorized
    /\ violation = [id |-> "rule", tags |-> <<"experimental", "cat.layout">>]
    /\ Range(chapters) = {"responsive", "visualDesign"}

(***************************************************************************)
(* run-tests.js: runAxeScan.                                               *)
(***************************************************************************)
Kinds == <<"violations", "incomplete", "passes">>

\* Lines 72-75, a mutation: no bucket is made before a record asks for it.
LazyByChapter == [ch \in {} |-> [violations |-> <<>>, incomplete |-> <<>>, passes |-> <<>>]]

\* Lines 72-75: one bucket per key of CHECKLIST_CHAPTERS.
EmptyByChapter ==
    [ch \in Range(CHECKLIST_CHAPTERS) |->
        [violations |-> <<>>, incomplete |-> <<>>, passes |-> <<>>]]

\* if (byChapter[ch]) byChapter[ch].<kind>.push(v)
PushTo(byChapter, ch, kind, v) ==
    IF ch \in DOMAIN byChapter
    THEN [byChapter EXCEPT ![ch][kind] = Append(@, v)]
    ELSE byChapter

\* chapters.forEach((ch) => ...), a mutation: only the first chapter gets v.
PushToFirst(byChapter, chs, kind, v) ==
    IF chs = <<>> THEN byChapter ELSE PushTo(byChapter, Head(chs), kind, v)

\* chapters.forEach((ch) => ...)
RECURSIVE PushToAll(_, _, _, _)
PushToAll(byChapter, chs, kind, v) ==
    IF chs = <<>> THEN byChapter
    ELSE PushToAll(PushTo(byChapter, Head(chs), kind, v), Tail(chs), kind, v)

\* (results.<kind> || []).forEach((v) => ...)
RECURSIVE BucketRecords(_, _, _)
BucketRecords(byChapter, records, kind) ==
    IF records = <<>> THEN byChapter
    ELSE BucketRecords(
            PushToAll(byChapter, categorizeAxeViolation(Head(records)), kind, Head(records)),
            Tail(records), kind)

runAxeScan(url, res) ==
    LET b0 == EmptyByChapter
        b1 == BucketRecords(b0, res.violations, "violations")
        b2 == BucketRecords(b1, res.incomplete, "incomplete")
        b3 == BucketRecords(b2, res.passes, "passes")
    IN  [url |-> url,
         violations |-> res.violations,
         incomplete |-> res.incomplete,
         passes |-> res.passes,
         byChapter |-> b3]

(***************************************************************************)
(* The scan of one page.  The audit records are rules of the audit library *)
(* with tags of its taxonomy; "cat.tables" and the "wcagNNN" tags have no  *)
(* row in AXE_TAG_TO_CHAPTER, and a record may lack the tags field.        *)
(***************************************************************************)
AuditRecords ==
    { [id |-> "color-contrast", tags |-> <<"cat.color", "wcag2aa", "wcag143">>],
      [id |-> "region", tags |-> <<"cat.keyboard", "best-practice">>],
      [id |-> "video-caption", tags |-> <<"cat.time-based-media", "wcag2a", "wcag122">>],
      [id |-> "css-orientation-lock", tags |-> <<"cat.structure", "wcag134", "wcag21aa", "experimental">>],
      [id |-> "scrollable-region", tags |-> <<"cat.layout">>],
      [id |-> "table-fake-caption", tags |-> <<"cat.tables", "experimental", "section508">>],
      [id |-> "custom-rule"] }

\* The records of one kind, in order, of a list of (kind, record) pairs.
RECURSIVE OfKind(_, _)
OfKind(pairs, kind) ==
    IF pairs = <<>> THEN <<>>
    ELSE IF Head(pairs)[1] = kind
         THEN <<Head(pairs)[2]>> \o OfKind(Tail(pairs), kind)
         ELSE OfKind(Tail(pairs), kind)

AnalyzeOutputs ==
    { [violations |-> OfKind(p, "violations"),
       incomplete |-> OfKind(p, "incomplete"),
       passes |-> OfKind(p, "passes")] :
         p \in SeqsUpTo(Range(Kinds) \X AuditRecords, MaxRecords) }

\* on: analyze() has returned for a page; otherwise no scan is under way.
InitScan(on) ==
    /\ results \in
          IF on THEN AnalyzeOutputs
                ELSE {[violations |-> <<>>, incomplete |-> <<>>, passes |-> <<>>]}
    /\ axeData = [url |-> "none"]
    /\ scanned = FALSE

RunAxeScan ==
    /\ ~scanned
    /\ axeData' = runAxeScan("https://example.org/", results)
    /\ scanned' = TRUE
    /\ UNCHANGED results
    /\ UNCHANGED <<classifyVars, remediationVars, scoreVars, deliverVars, reportVars, serverVars>>

\* How often x occurs in the list s.
Count(s, x) == Cardinality({i \in 1..Len(s) : s[i] = x})

\* The chapters of a record as the spec's classifier states them: the union
\* of the rows of its known tags, or the default chapter.
Classification(v) ==
    IF KnownTags(v) = {} THEN {"semantics"}
    ELSE UNION {Range(AXE_TAG_TO_CHAPTER[t]) : t \in KnownTags(v)}

\* C4: for each kind and each chapter key, a record is in the chapter's bucket
\* exactly when it is among the results of that kind and the chapter is in
\* the classification of its tags, as often as the results list it; so every
\* record is in at least one bucket and in each chapter of its classification.
C4_BucketIffClassified ==
    scanned =>
        \A k \in Range(Kinds) : \A v \in AuditRecords :
            /\ \A ch \in Range(CHECKLIST_CHAPTERS) :
                  Count(axeData.byChapter[ch][k], v) =
                      IF ch \in Classification(v) THEN Count(results[k], v) ELSE 0
            /\ Count(results[k], v) > 0 =>
                  \E ch \in Range(CHECKLIST_CHAPTERS) :
                      Count(axeData.byChapter[ch][k], v) > 0

\* A scan has put a record with several chapters into each of them and a
\* record without a known tag into the default chapter.
C4_Witness ==
    /\ scanned
    /\ \E v \in Range(results.violations) :
          /\ Cardinality(Classification(v)) > 1
          /\ \A ch \in Classification(v) : Count(axeData.byChapter[ch].violations, v) = 1
    /\ \E v \in Range(results.incomplete) :
          /\ KnownTags(v) = {}
          /\ Count(axeData.byChapter["semantics"].incomplete, v) = 1

\* C5: whatever the audit returned, the empty result included, byChapter has
\* exactly the 8 chapter keys, each with a violations, an incomplete and a
\* passes list, and a chapter no record is classified into has empty lists.
C5_EveryChapterPresent ==
    scanned =>
        /\ DOMAIN axeData.byChapter = Range(CHECKLIST_CHAPTERS)
        /\ Cardinality(DOMAIN axeData.byChapter) = 8
        /\ \A ch \in Range(CHECKLIST_CHAPTERS) :
              /\ DOMAIN axeData.byChapter[ch] = Range(Kinds)
              /\ \A k \in Range(Kinds) :
                    (\A v \in Range(results[k]) : ch \notin Classification(v))
                        => axeData.byChapter[ch][k] = <<>>

\* A scan of an audit without any record has returned.
C5_Witness ==
    /\ scanned
    /\ results = [violations |-> <<>>, incomplete |-> <<>>, passes |-> <<>>]
    /\ \A ch \in Range(CHECKLIST_CHAPTERS) : axeData.byChapter[ch].violations = <<>>

(***************************************************************************)
(* remediation-data.js: the rule catalog.  A snippet is named by the key   *)
(* of the entry that holds its text; an AXE_REMEDIATION row that is        *)
(* REMEDIATION_MAP[k] is that very entry.                                  *)
(***************************************************************************)
REMEDIATION_MAP ==
       ("page-title-exists" :> [wcag |-> <<"2.4.2">>, snippet |-> "fix:page-title-exists", impact |-> "high", effort |-> "simple"])
    @@ ("html-lang" :> [wcag |-> <<"3.1.1">>, snippet |-> "fix:html-lang", impact |-> "high", effort |-> "simple"])
    @@ ("landmarks-present" :> [wcag |-> <<"1.3.1", "2.4.1">>, snippet |-> "fix:landmarks-present", impact |-> "medium", effort |-> "moderate"])
    @@ ("single-main" :> [wcag |-> <<"1.3.1", "2.4.1">>, snippet |-> "fix:single-main", impact |-> "medium", effort |-> "simple"])
    @@ ("heading-structure" :> [wcag |-> <<"1.3.1", "2.4.6">>, snippet |-> "fix:heading-structure", impact |-> "medium", effort |-> "moderate"])
    @@ ("link-text" :> [wcag |-> <<"2.4.4", "4.1.2">>, snippet |-> "fix:link-text", impact |-> "high", effort |-> "simple"])
    @@ ("link-meaningful" :> [wcag |-> <<"2.4.4">>, snippet |-> "fix:link-meaningful", impact |-> "medium", effort |-> "moderate"])
    @@ ("skip-link" :> [wcag |-> <<"2.4.1">>, snippet |-> "fix:skip-link", impact |-> "high", effort |-> "simple"])
    @@ ("table-headers" :> [wcag |-> <<"1.3.1">>, snippet |-> "fix:table-headers", impact |-> "high", effort |-> "moderate"])
    @@ ("list-markup" :> [wcag |-> <<"1.3.1">>, snippet |-> "fix:list-markup", impact |-> "medium", effort |-> "simple"])
    @@ ("iframe-titles" :> [wcag |-> <<"4.1.2">>, snippet |-> "fix:iframe-titles", impact |-> "high", effort |-> "simple"])
    @@ ("unique-ids" :> [wcag |-> <<"4.1.1">>, snippet |-> "fix:unique-ids", impact |-> "high", effort |-> "moderate"])
    @@ ("img-alt" :> [wcag |-> <<"1.1.1">>, snippet |-> "fix:img-alt", impact |-> "high", effort |-> "simple"])
    @@ ("img-alt-length" :> [wcag |-> <<"1.1.1">>, snippet |-> "fix:img-alt-length", impact |-> "medium", effort |-> "simple"])
    @@ ("svg-role" :> [wcag |-> <<"1.1.1", "4.1.2">>, snippet |-> "fix:svg-role", impact |-> "high", effort |-> "simple"])
    @@ ("svg-accessible-name" :> [wcag |-> <<"1.1.1">>, snippet |-> "fix:svg-accessible-name", impact |-> "high", effort |-> "simple"])
    @@ ("canvas-alt" :> [wcag |-> <<"1.1.1">>, snippet |-> "fix:canvas-alt", impact |-> "high", effort |-> "moderate"])
    @@ ("image-map-alt" :> [wcag |-> <<"1.1.1">>, snippet |-> "fix:image-map-alt", impact |-> "high", effort |-> "moderate"])
    @@ ("link-differentiation" :> [wcag |-> <<"1.4.1">>, snippet |-> "fix:link-differentiation", impact |-> "medium", effort |-> "simple"])
    @@ ("focus-indicator" :> [wcag |-> <<"2.4.7">>, snippet |-> "fix:focus-indicator", impact |-> "high", effort |-> "simple"])
    @@ ("no-horizontal-scroll" :> [wcag |-> <<"1.4.10">>, snippet |-> "fix:no-horizontal-scroll", impact |-> "medium", effort |-> "moderate"])
    @@ ("viewport-zoom" :> [wcag |-> <<"1.4.4">>, snippet |-> "fix:viewport-zoom", impact |-> "high", effort |-> "simple"])
    @@ ("video-captions" :> [wcag |-> <<"1.2.2">>, snippet |-> "fix:video-captions", impact |-> "high", effort |-> "complex"])
    @@ ("video-autoplay" :> [wcag |-> <<"1.4.2">>, snippet |-> "fix:video-autoplay", impact |-> "medium", effort |-> "simple"])
    @@ ("audio-autoplay" :> [wcag |-> <<"1.4.2">>, snippet |-> "fix:audio-autoplay", impact |-> "medium", effort |-> "simple"])
    @@ ("flash-alternative" :> [wcag |-> <<"1.1.1">>, snippet |-> "fix:flash-alternative", impact |-> "high", effort |-> "complex"])
    @@ ("tabindex-positive" :> [wcag |-> <<"2.4.3">>, snippet |-> "fix:tabindex-positive", impact |-> "high", effort |-> "simple"])
    @@ ("touch-target-size" :> [wcag |-> <<"2.5.5">>, snippet |-> "fix:touch-target-size", impact |-> "medium", effort |-> "moderate"])
    @@ ("form-labels" :> [wcag |-> <<"3.3.2", "4.1.2">>, snippet |-> "fix:form-labels", impact |-> "high", effort |-> "simple"])
    @@ ("placeholder-not-only-label" :> [wcag |-> <<"3.3.2">>, snippet |-> "fix:placeholder-not-only-label", impact |-> "high", effort |-> "simple"])
    @@ ("no-auto-refresh" :> [wcag |-> <<"2.2.2">>, snippet |-> "fix:no-auto-refresh", impact |-> "medium", effort |-> "moderate"])
    @@ ("dynamic-announcements" :> [wcag |-> <<"4.1.3">>, snippet |-> "fix:dynamic-announcements", impact |-> "high", effort |-> "moderate"])
    @@ ("page-load" :> [wcag |-> <<>>, snippet |-> "fix:page-load", impact |-> "high", effort |-> "complex"])

AXE_REMEDIATION ==
       ("document-title" :> [wcag |-> <<"2.4.2">>, snippet |-> "fix:page-title-exists", impact |-> "high", effort |-> "simple"])
    @@ ("html-has-lang" :> [wcag |-> <<"3.1.1">>, snippet |-> "fix:html-lang", impact |-> "high", effort |-> "simple"])
    @@ ("image-alt" :> [wcag |-> <<"1.1.1">>, snippet |-> "fix:img-alt", impact |-> "high", effort |-> "simple"])
    @@ ("label" :> [wcag |-> <<"3.3.2", "4.1.2">>, snippet |-> "fix:form-labels", impact |-> "high", effort |-> "simple"])
    @@ ("link-name" :> [wcag |-> <<"2.4.4", "4.1.2">>, snippet |-> "fix:link-text", impact |-> "high", effort |-> "simple"])
    @@ ("button-name" :> [wcag |-> <<"2.1.1", "4.1.2">>, snippet |-> "fix:button-name", impact |-> "high", effort |-> "simple"])
    @@ ("color-contrast" :> [wcag |-> <<"1.4.3">>, snippet |-> "fix:color-contrast", impact |-> "high", effort |-> "moderate"])
    @@ ("landmark-one-main" :> [wcag |-> <<"1.3.1", "2.4.1">>, snippet |-> "fix:single-main", impact |-> "medium", effort |-> "simple"])
    @@ ("region" :> [wcag |-> <<"1.3.1", "2.4.1">>, snippet |-> "fix:region", impact |-> "medium", effort |-> "moderate"])
    @@ ("landmark-unique" :> [wcag |-> <<"1.3.1">>, snippet |-> "fix:landmark-unique", impact |-> "medium", effort |-> "simple"])
    @@ ("frame-title" :> [wcag |-> <<"4.1.2">>, snippet |-> "fix:iframe-titles", impact |-> "high", effort |-> "simple"])
    @@ ("duplicate-id" :> [wcag |-> <<"4.1.1">>, snippet |-> "fix:unique-ids", impact |-> "high", effort |-> "moderate"])
    @@ ("heading-order" :> [wcag |-> <<"1.3.1", "2.4.6">>, snippet |-> "fix:heading-structure", impact |-> "medium", effort |-> "moderate"])
    @@ ("list" :> [wcag |-> <<"1.3.1">>, snippet |-> "fix:list-markup", impact |-> "medium", effort |-> "simple"])
    @@ ("tabindex" :> [wcag |-> <<"2.4.3">>, snippet |-> "fix:tabindex-positive", impact |-> "high", effort |-> "simple"])
    @@ ("focus-order-semantics" :> [wcag |-> <<"2.4.3">>, snippet |-> "fix:focus-order-semantics", impact |-> "medium", effort |-> "moderate"])
    @@ ("meta-viewport" :> [wcag |-> <<"1.4.4">>, snippet |-> "fix:viewport-zoom", impact |-> "high", effort |-> "simple"])
    @@ ("aria-valid-attr" :> [wcag |-> <<"4.1.2">>, snippet |-> "fix:aria-valid-attr", impact |-> "high", effort |-> "simple"])
    @@ ("aria-valid-attr-value" :> [wcag |-> <<"4.1.2">>, snippet |-> "fix:aria-valid-attr-value", impact |-> "high", effort |-> "simple"])
    @@ ("aria-required-attr" :> [wcag |-> <<"4.1.2">>, snippet |-> "fix:aria-required-attr", impact |-> "high", effort |-> "moderate"])
    @@ ("input-button-name" :> [wcag |-> <<"3.3.2", "4.1.2">>, snippet |-> "fix:form-labels", impact |-> "high", effort |-> "simple"])
    @@ ("form-field-multiple-labels" :> [wcag |-> <<"3.3.2">>, snippet |-> "fix:form-field-multiple-labels", impact |-> "medium", effort |-> "simple"])

\* A missing argument, and the key a lookup with it uses.
Undefined == "undefined"

\* The literal of lines 284-289.
GenericRemediation ==
    [wcag |-> <<>>, snippet |-> "fix:generic", impact |-> "medium", effort |-> "moderate"]

\* getRemediation, a mutation: the audit rule id is looked up first.
GetRemediationAxeFirst(check, axeRule) ==
    IF axeRule \in DOMAIN AXE_REMEDIATION THEN AXE_REMEDIATION[axeRule]
    ELSE IF check \in DOMAIN REMEDIATION_MAP THEN REMEDIATION_MAP[check]
    ELSE GenericRemediation

\* getRemediation, a mutation: no literal after the second ||, so a double
\* miss returns undefined (no field at all).
GetRemediationNoGeneric(check, axeRule) ==
    IF check \in DOMAIN REMEDIATION_MAP THEN REMEDIATION_MAP[check]
    ELSE IF axeRule \in DOMAIN AXE_REMEDIATION THEN AXE_REMEDIATION[axeRule]
    ELSE <<>>

\* REMEDIATION_MAP[checkId] || AXE_REMEDIATION[axeRuleId] || {...}: an entry
\* is an object, hence truthy; a miss is undefined, hence falsy.
getRemediation(check, axeRule) ==
    IF check \in DOMAIN REMEDIATION_MAP THEN REMEDIATION_MAP[check]
    ELSE IF axeRule \in DOMAIN AXE_REMEDIATION THEN AXE_REMEDIATION[axeRule]
    ELSE GenericRemediation

(***************************************************************************)
(* The lookup on its own.  Check ids are the ids the chapter adapters and  *)
(* the runner give their results; audit rule ids are rule names of the     *)
(* audit library; either argument may be missing or be an id of the other  *)
(* kind.                                                                   *)
(***************************************************************************)
\* The keys of both tables, the `${chapterId}-error` ids of runCustomChecks,
\* two rules of the audit library without a row, and a missing argument.
CheckIdInputs ==
    DOMAIN REMEDIATION_MAP \cup DOMAIN AXE_REMEDIATION
        \cup {ch \o "-error" : ch \in Range(CHECKLIST_CHAPTERS)}
        \cup {"aria-roles", "table-fake-caption", Undefined}

AxeRuleIdInputs ==
    DOMAIN AXE_REMEDIATION
        \cup {"aria-roles", "table-fake-caption", "img-alt", "page-load", Undefined}

\* on: the lookup is about to be called; otherwise it is at rest.
InitRemediation(on) ==
    /\ checkId \in (IF on THEN CheckIdInputs ELSE {Undefined})
    /\ axeRuleId \in (IF on THEN AxeRuleIdInputs ELSE {Undefined})
    /\ entry = <<>>
    /\ looked = FALSE

GetRemediation ==
    /\ ~looked
    /\ entry' = getRemediation(checkId, axeRuleId)
    /\ looked' = TRUE
    /\ UNCHANGED <<checkId, axeRuleId>>
    /\ UNCHANGED <<classifyVars, scanVars, scoreVars, deliverVars, reportVars, serverVars>>

\* C7: the REMEDIATION_MAP entry of checkId is returned whenever there is one,
\* whatever axeRuleId is; the AXE_REMEDIATION entry of axeRuleId is returned
\* when checkId has none; the generic entry when neither table has an entry.
C7_CheckIdFirst ==
    looked =>
        /\ checkId \in DOMAIN REMEDIATION_MAP => entry = REMEDIATION_MAP[checkId]
        /\ (checkId \notin DOMAIN REMEDIATION_MAP /\ axeRuleId \in DOMAIN AXE_REMEDIATION)
              => entry = AXE_REMEDIATION[axeRuleId]
        /\ (checkId \notin DOMAIN REMEDIATION_MAP /\ axeRuleId \notin DOMAIN AXE_REMEDIATION)
              => entry = GenericRemediation

\* Both ids are known, their entries differ, and the check id's was returned.
C7_Witness ==
    /\ looked
    /\ checkId \in DOMAIN REMEDIATION_MAP
    /\ axeRuleId \in DOMAIN AXE_REMEDIATION
    /\ AXE_REMEDIATION[axeRuleId] # REMEDIATION_MAP[checkId]
    /\ entry = REMEDIATION_MAP[checkId]

\* C8: for every check id and audit rule id, known, unknown or missing, the
\* lookup returns an entry with an impact in {high, medium, low}, an effort
\* in {simple, moderate, complex}, a WCAG list and a snippet; for ids found
\* in neither table the impact is medium, the effort moderate and the WCAG
\* list empty.
C8_AlwaysAnEntry ==
    looked =>
        /\ {"wcag", "snippet", "impact", "effort"} \subseteq DOMAIN entry
        /\ entry.impact \in {"high", "medium", "low"}
        /\ entry.effort \in {"simple", "moderate", "complex"}
        /\ (checkId \notin DOMAIN REMEDIATION_MAP /\ axeRuleId \notin DOMAIN AXE_REMEDIATION)
              => /\ entry.impact = "medium"
                 /\ entry.effort = "moderate"
                 /\ entry.wcag = <<>>

\* The lookup has returned for an unknown check id and an unknown rule id.
C8_Witness ==
    /\ looked
    /\ checkId = "forms-error"
    /\ axeRuleId = "aria-roles"
    /\ entry.impact = "medium"
    /\ entry.effort = "moderate"
    /\ entry.wcag = <<>>

(***************************************************************************)
(* remediation-data.js: the fix-order score.                               *)
(***************************************************************************)
IMPACT_ORDER == ("high" :> 0) @@ ("medium" :> 1) @@ ("low" :> 2)

EFFORT_ORDER == ("simple" :> 0) @@ ("moderate" :> 1) @@ ("complex" :> 2)

\* TABLE[key] ?? 1
OrderOr1(table, rec, field) ==
    IF field \in DOMAIN rec /\ rec[field] \in DOMAIN table THEN table[rec[field]] ELSE 1

\* fixOrderScore, a mutation: the two ranks change places.
FixOrderScoreEffortFirst(i) ==
    OrderOr1(EFFORT_ORDER, i, "effort") * 10 + OrderOr1(IMPACT_ORDER, i, "impact")

fixOrderScore(i) ==
    OrderOr1(IMPACT_ORDER, i, "impact") * 10 + OrderOr1(EFFORT_ORDER, i, "effort")

U1 == "https://example.org/"
U2 == "https://example.org/about"
U3 == "https://example.org/down"

\* FixOrderItems over the whole impact x effort grid.
ItemsOver(rules, statuses, urls) ==
    { [rule |-> r, status |-> st, impact |-> im, effort |-> ef, url |-> u,
       wcag |-> <<>>, snippet |-> "fix"] :
         r \in rules, st \in statuses, im \in DOMAIN IMPACT_ORDER,
         ef \in DOMAIN EFFORT_ORDER, u \in urls }

\* on: the score of an item is about to be computed.
InitScore(on) ==
    /\ item \in
          IF on THEN ItemsOver({"Page load", "Images must have alternative text"},
                               {"fail", "warn"}, {U1, U2})
                ELSE {[rule |-> "none"]}
    /\ score = 0
    /\ scored = FALSE

(***************************************************************************)
(* generate-presentations: the developer guide, the client presentation    *)
(* with its 3 phases, and the statement draft.                             *)
(***************************************************************************)
\* Line 313.
QuickWinsFilter(i) == i.impact = "high" /\ i.effort = "simple"

\* Line 314.
MediumEffortFilter(i) ==
    \/ i.impact = "high" /\ i.effort # "simple"
    \/ i.impact = "medium" /\ i.effort = "simple"

\* Line 315, a mutation: the low-impact disjunct is missing.
LongTermFilterNoLow(i) ==
    \/ i.effort = "complex"
    \/ i.impact = "medium" /\ i.effort # "simple"

\* Line 315.
LongTermFilter(i) ==
    \/ i.effort = "complex"
    \/ i.impact = "medium" /\ i.effort # "simple"
    \/ i.impact = "low"

\* The keys of new Map(items.map((i) => [i.rule, i])), in insertion order.
RECURSIVE RuleKeys(_, _)
RuleKeys(items, keys) ==
    IF items = <<>> THEN keys
    ELSE RuleKeys(Tail(items), SetAdd(keys, Head(items).rule))

\* Map.prototype.set on a key already present replaces its value.
LastWithRule(items, rule) ==
    items[CHOOSE k \in 1..Len(items) :
            /\ items[k].rule = rule
            /\ \A j \in (k + 1)..Len(items) : items[j].rule # rule]

\* Line 312: [...new Map(items.map((i) => [i.rule, i])).values()]
uniqueByRule(items) ==
    LET keys == RuleKeys(items, <<>>)
    IN  [k \in 1..Len(keys) |-> LastWithRule(items, keys[k])]

\* Lines 313-315: fixOrderItems.filter(...) for each of the three phases; a
\* phase is rendered as the list of its items' rules, or "None".
generateClientPresentation(data) ==
    [quickWins |-> uniqueByRule(SelectSeq(data.fixOrderItems, QuickWinsFilter)),
     mediumEffort |-> uniqueByRule(SelectSeq(data.fixOrderItems, MediumEffortFilter)),
     longTerm |-> uniqueByRule(SelectSeq(data.fixOrderItems, LongTermFilter))]

\* Lines 281-295: one block per item, numbered i + 1, in the list's order.
generateDeveloperAdvice(data) ==
    [k \in 1..Len(data.fixOrderItems) |->
        LET i == data.fixOrderItems[k]
        IN  [n |-> k,
             rule |-> i.rule,
             badge |-> IF i.status = "fail" THEN "fail" ELSE "warn",
             status |-> i.status,
             impact |-> i.impact,
             effort |-> i.effort,
             url |-> i.url,
             wcag |-> i.wcag,
             snippet |-> IF i.snippet = "" THEN "See WCAG guidelines." ELSE i.snippet]]

\* Lines 411-415: the first 15 distinct rule names.
generateAccessibilityStatement(data) ==
    LET uniqueRules == RuleKeys(data.fixOrderItems, <<>>)
    IN  SubSeq(uniqueRules, 1, IF Len(uniqueRules) < 15 THEN Len(uniqueRules) ELSE 15)

(***************************************************************************)
(* The fix-order list of a report: every CheckResult with status fail or   *)
(* warn and every audit violation of every URL, joined with the catalog,   *)
(* then sorted by score, items of equal score staying in encounter order.  *)
(***************************************************************************)
ItemOfCheck(r) ==
    LET rem == getRemediation(r.id, Undefined)
    IN  [rule |-> r.rule, status |-> r.status, impact |-> rem.impact,
         effort |-> rem.effort, url |-> r.url, wcag |-> rem.wcag, snippet |-> rem.snippet]

ItemOfViolation(v, url) ==
    LET rem == getRemediation(v.id, v.id)
    IN  [rule |-> v.help, status |-> "fail", impact |-> rem.impact,
         effort |-> rem.effort, url |-> url, wcag |-> rem.wcag, snippet |-> rem.snippet]

IsIssue(r) == r.status \in {"fail", "warn"}

RECURSIVE ViolationItems(_, _)
ViolationItems(rd, urls) ==
    IF urls = <<>> THEN <<>>
    ELSE LET vs == rd.axeResults[Head(urls)].violations
         IN  [k \in 1..Len(vs) |-> ItemOfViolation(vs[k], Head(urls))]
                \o ViolationItems(rd, Tail(urls))

\* The items in the order in which they are encountered.
EncounteredItems(rd) ==
    LET issues == SelectSeq(rd.customResults, IsIssue)
    IN  [k \in 1..Len(issues) |-> ItemOfCheck(issues[k])] \o ViolationItems(rd, rd.urls)

\* x goes after the last element whose score is not greater than its own.
RECURSIVE InsertByScore(_, _)
InsertByScore(sorted, x) ==
    IF sorted = <<>> THEN <<x>>
    ELSE IF fixOrderScore(x) < fixOrderScore(Head(sorted))
         THEN <<x>> \o sorted
         ELSE <<Head(sorted)>> \o InsertByScore(Tail(sorted), x)

\* items.sort((a, b) => fixOrderScore(a) - fixOrderScore(b)), a stable sort.
RECURSIVE SortByScore(_, _)
SortByScore(items, sorted) ==
    IF items = <<>> THEN sorted
    ELSE SortByScore(Tail(items), InsertByScore(sorted, Head(items)))

buildFixOrderItems(rd) == SortByScore(EncounteredItems(rd), <<>>)

(***************************************************************************)
(* Reports: two loaded URLs and one that failed to load.                   *)
(***************************************************************************)
CheckResults ==
    { [id |-> "img-alt", rule |-> "Informative images MUST have alternative text",
       status |-> "fail", chapter |-> "images", url |-> U1],
      [id |-> "img-alt", rule |-> "Informative images MUST have alternative text",
       status |-> "fail", chapter |-> "images", url |-> U2],
      [id |-> "single-main", rule |-> "Page SHOULD have only one main landmark",
       status |-> "warn", chapter |-> "semantics", url |-> U1],
      [id |-> "heading-structure", rule |-> "Headings SHOULD NOT skip levels",
       status |-> "warn", chapter |-> "semantics", url |-> U1],
      [id |-> "semantics-error", rule |-> "semantics checks",
       status |-> "fail", chapter |-> "semantics", url |-> U2],
      [id |-> "page-title-exists", rule |-> "Page MUST have a title with text",
       status |-> "pass", chapter |-> "semantics", url |-> U1],
      [id |-> "page-load", rule |-> "Page load", status |-> "fail", url |-> U3] }

Violations ==
    { [id |-> "color-contrast", help |-> "Elements must meet minimum color contrast ratio thresholds"],
      [id |-> "image-alt", help |-> "Images must have alternative text"] }

Reports ==
    { [urls |-> <<U1, U2>>,
       customResults |-> cr,
       axeResults |-> (U1 :> [violations |-> v1]) @@ (U2 :> [violations |-> v2])] :
         cr \in SeqsUpTo(CheckResults, MaxResults),
         v1 \in SeqsUpTo(Violations, MaxViolations),
         v2 \in SeqsUpTo(Violations, MaxViolations) }

\* "build": a report is at hand and its fix-order list is yet to be built;
\* "developers": generateAllDeliverables is called with a fix-order list over
\* the grid; "done": nothing is being generated.
InitDeliver(at) ==
    /\ step = at
    /\ reportData \in
          IF at = "build" THEN Reports ELSE {[urls |-> <<>>, customResults |-> <<>>]}
    /\ fixOrderItems \in
          IF at = "developers"
          THEN SeqsUpTo(ItemsOver({"Page load", "Images must have alternative text"},
                                  {"fail"}, {U1}), MaxItems)
          ELSE {<<>>}
    /\ developers = <<>>
    /\ client = [quickWins |-> <<>>, mediumEffort |-> <<>>, longTerm |-> <<>>]
    /\ statement = <<>>

\* The data object the deliverables are generated from.
Data == [reportData |-> reportData, fixOrderItems |-> fixOrderItems]

(***************************************************************************)
(* Actions.                                                                *)
(***************************************************************************)
FixOrderScore ==
    /\ ~scored
    /\ score' = fixOrderScore(item)
    /\ scored' = TRUE
    /\ UNCHANGED item
    /\ UNCHANGED <<classifyVars, scanVars, remediationVars, deliverVars, reportVars, serverVars>>

BuildFixOrderItems ==
    /\ step = "build"
    /\ fixOrderItems' = buildFixOrderItems(reportData)
    /\ step' = "developers"
    /\ UNCHANGED <<reportData, developers, client, statement>>
    /\ UNCHANGED <<classifyVars, scanVars, remediationVars, scoreVars, reportVars, serverVars>>

\* generateAllDeliverables, first call.
GenerateDeveloperAdvice ==
    /\ step = "developers"
    /\ developers' = generateDeveloperAdvice(Data)
    /\ step' = "client"
    /\ UNCHANGED <<reportData, fixOrderItems, client, statement>>
    /\ UNCHANGED <<classifyVars, scanVars, remediationVars, scoreVars, reportVars, serverVars>>

\* generateAllDeliverables, second call.
GenerateClientPresentation ==
    /\ step = "client"
    /\ client' = generateClientPresentation(Data)
    /\ step' = "statement"
    /\ UNCHANGED <<reportData, fixOrderItems, developers, statement>>
    /\ UNCHANGED <<classifyVars, scanVars, remediationVars, scoreVars, reportVars, serverVars>>

\* generateAllDeliverables, third call.
GenerateAccessibilityStatement ==
    /\ step = "statement"
    /\ statement' = generateAccessibilityStatement(Data)
    /\ step' = "done"
    /\ UNCHANGED <<reportData, fixOrderItems, developers, client>>
    /\ UNCHANGED <<classifyVars, scanVars, remediationVars, scoreVars, reportVars, serverVars>>

GenerateAllDeliverables ==
    \/ GenerateDeveloperAdvice
    \/ GenerateClientPresentation
    \/ GenerateAccessibilityStatement

(***************************************************************************)
(* Claims about the score, the phases and the developer guide.             *)
(***************************************************************************)
\* The ranks as the design states them.
RankOf(x) ==
    CASE x \in {"high", "simple"} -> 0
      [] x \in {"medium", "moderate"} -> 1
      [] x \in {"low", "complex"} -> 2

PriorityOf(i) == RankOf(i.impact) * 10 + RankOf(i.effort)

ClientGenerated == step \in {"statement", "done"}

DevelopersGenerated == step \in {"client", "statement", "done"}

\* C1: no FixOrderItem is listed in two of the three phases.
C1_PhasesDisjoint ==
    ClientGenerated =>
        /\ Range(client.quickWins) \cap Range(client.mediumEffort) = {}
        /\ Range(client.quickWins) \cap Range(client.longTerm) = {}
        /\ Range(client.mediumEffort) \cap Range(client.longTerm) = {}

\* C2: every FixOrderItem is in the 3-phase plan: the rule of each item is
\* listed in at least one phase, and when no two items share a rule (so that
\* nothing is deduplicated) each item itself is in at least one phase.
C2_PhasesExhaustive ==
    ClientGenerated =>
        LET phases == {client.quickWins, client.mediumEffort, client.longTerm}
            n == Len(fixOrderItems)
        IN  /\ \A k \in 1..n : \E ph \in phases :
                  \E y \in Range(ph) : y.rule = fixOrderItems[k].rule
            /\ (\A j, k \in 1..n : fixOrderItems[j].rule = fixOrderItems[k].rule => j = k)
                  => \A k \in 1..n : \E ph \in phases : fixOrderItems[k] \in Range(ph)

\* The plan of a list with a low-impact item and a medium-impact item that
\* is not simple, under different rules: both are in the long-term phase.
C2_Witness ==
    /\ ClientGenerated
    /\ Len(fixOrderItems) = MaxItems
    /\ \E j, k \in 1..Len(fixOrderItems) :
          /\ fixOrderItems[j].rule # fixOrderItems[k].rule
          /\ fixOrderItems[j].impact = "low" /\ fixOrderItems[j].effort = "simple"
          /\ fixOrderItems[k].impact = "medium" /\ fixOrderItems[k].effort = "complex"
          /\ fixOrderItems[j] \in Range(client.longTerm)
          /\ fixOrderItems[k] \in Range(client.longTerm)

\* C9: the score is impactRank * 10 + effortRank with high, medium, low and
\* simple, moderate, complex ranked 0, 1, 2; an item scores strictly lower
\* than every item of lower impact whatever the efforts; and the score is 0,
\* the minimum, exactly for impact high and effort simple.
C9_ScoreFormula ==
    scored =>
        /\ score = PriorityOf(item)
        /\ \A j \in ItemsOver({"Page load"}, {"fail"}, {U1}) :
              RankOf(item.impact) < RankOf(j.impact) => score < fixOrderScore(j)
        /\ score >= 0
        /\ score = 0 <=> (item.impact = "high" /\ item.effort = "simple")

\* A high-impact item of complex effort was scored 2, below the 10 of a
\* medium-impact item of simple effort.
C9_Witness ==
    /\ scored
    /\ item.impact = "high"
    /\ item.effort = "complex"
    /\ score = 2

\* What identifies an item in a rendered block and in the encounter list.
KeyOf(b) == <<b.rule, b.status, b.url, b.impact, b.effort, b.wcag>>

KeysWithPriority(list, p) ==
    LET Has(b) == PriorityOf(b) = p
        sel == SelectSeq(list, Has)
    IN  [k \in 1..Len(sel) |-> KeyOf(sel[k])]

FirstByRule(items) ==
    LET keys == RuleKeys(items, <<>>)
    IN  [k \in 1..Len(keys) |->
            items[CHOOSE j \in 1..Len(items) :
                    /\ items[j].rule = keys[k]
                    /\ \A h \in 1..(j - 1) : items[h].rule # keys[k]]]

\* C11: in each phase every rule name appears at most once, and the item kept
\* for a rule is the first item with that rule in the phase's filtered list,
\* at the position of that first occurrence.
C11_FirstOccurrenceWins ==
    ClientGenerated =>
        /\ client.quickWins = FirstByRule(SelectSeq(fixOrderItems, QuickWinsFilter))
        /\ client.mediumEffort = FirstByRule(SelectSeq(fixOrderItems, MediumEffortFilter))
        /\ client.longTerm = FirstByRule(SelectSeq(fixOrderItems, LongTermFilter))


(***************************************************************************)
(* generate-report: the score.  JavaScript numbers are IEEE 754 doubles.   *)
(* A non-negative double is modelled as [bits, frac]: the binary digits of *)
(* an integer, most significant first, and how many of them lie after the  *)
(* binary point.  Every operation rounds its exact result to Precision     *)
(* significant digits, ties to even.                                       *)
(***************************************************************************)
Precision == 53

Max(a, b) == IF a >= b THEN a ELSE b

Min(a, b) == IF a <= b THEN a ELSE b

Zeros(n) == [i \in 1..n |-> 0]

\* The digits with the leading zeros removed.
StripZeros(b) ==
    IF \A i \in 1..Len(b) : b[i] = 0
    THEN <<>>
    ELSE LET k == CHOOSE i \in 1..Len(b) :
                      b[i] = 1 /\ \A j \in 1..(i - 1) : b[j] = 0
         IN  SubSeq(b, k, Len(b))

\* The digits of the integer plus one.
Increment(b) ==
    IF \A i \in 1..Len(b) : b[i] = 1
    THEN <<1>> \o Zeros(Len(b))
    ELSE LET k == CHOOSE i \in 1..Len(b) :
                      b[i] = 0 /\ \A j \in (i + 1)..Len(b) : b[j] = 1
         IN  [i \in 1..Len(b) |-> IF i < k THEN b[i] ELSE IF i = k THEN 1 ELSE 0]

\* The digits of the sum of two integers.
AddBits(a, b) ==
    LET n == Max(Len(a), Len(b)) + 1
        A(i) == IF i <= Len(a) THEN a[Len(a) + 1 - i] ELSE 0
        B(i) == IF i <= Len(b) THEN b[Len(b) + 1 - i] ELSE 0
        \* a carry enters place i when a lower place makes one and every
        \* place between passes it on
        carry(i) ==
            IF \E j \in 1..(i - 1) :
                   /\ A(j) + B(j) = 2
                   /\ \A k \in (j + 1)..(i - 1) : A(k) + B(k) >= 1
            THEN 1 ELSE 0
    IN  [i \in 1..n |-> (A(n + 1 - i) + B(n + 1 - i) + carry(n + 1 - i)) % 2]

RECURSIVE BitsToNat(_)
BitsToNat(b) ==
    IF b = <<>> THEN 0 ELSE 2 * BitsToNat(SubSeq(b, 1, Len(b) - 1)) + b[Len(b)]

\* Long division of r by t, r < t: the zero digits before the first one,
\* the first n digits after the binary point, and the remainder they leave.
RECURSIVE LeadingZeros(_, _)
LeadingZeros(r, t) == IF 2 * r >= t THEN 0 ELSE 1 + LeadingZeros(2 * r, t)

\* 2^n modulo t, by repeated squaring.
RECURSIVE Pow2Mod(_, _)
Pow2Mod(n, t) ==
    IF n = 0 THEN 1 % t
    ELSE LET h == Pow2Mod(n \div 2, t)
         IN  (h * h * (IF n % 2 = 1 THEN 2 ELSE 1)) % t

\* The remainder after n digits is r * 2^n modulo t.
DivRem(r, t, n) == (r * Pow2Mod(n, t)) % t

DivBits(r, t, n) ==
    [i \in 1..n |-> IF 2 * DivRem(r, t, i - 1) >= t THEN 1 ELSE 0]

\* An exact product rounded to a double.
RoundToPrecision(x) ==
    LET b == StripZeros(x.bits)
        kept == SubSeq(b, 1, Precision)
        dropped == SubSeq(b, Precision + 1, Len(b))
        up == /\ dropped[1] = 1
              /\ \/ \E i \in 2..Len(dropped) : dropped[i] = 1
                 \/ kept[Precision] = 1
    IN  IF Len(b) <= Precision
        THEN [bits |-> b, frac |-> x.frac]
        ELSE [bits |-> IF up THEN Increment(kept) ELSE kept,
              frac |-> x.frac - Len(dropped)]

\* pass / total, for 0 <= p <= t and t > 0.
Quotient(p, t) ==
    IF p = 0 THEN [bits |-> <<>>, frac |-> 0]
    ELSE IF p = t THEN [bits |-> <<1>>, frac |-> 0]
    ELSE LET n == LeadingZeros(p, t) + Precision
             b == DivBits(p, t, n)
             r == DivRem(p, t, n)
             up == 2 * r > t \/ (2 * r = t /\ b[n] = 1)
         IN  [bits |-> IF up THEN Increment(b) ELSE b, frac |-> n]

\* x * 100, as 64x + 32x + 4x.
Times100(x) ==
    RoundToPrecision(
        [bits |-> AddBits(AddBits(x.bits \o Zeros(6), x.bits \o Zeros(5)),
                          x.bits \o Zeros(2)),
         frac |-> x.frac])

\* Math.round: the nearest integer, a tie going up.
MathRound(x) ==
    LET b == StripZeros(x.bits)
        n == Len(b) - x.frac
    IN  IF n < 0 THEN 0
        ELSE BitsToNat(SubSeq(b, 1, n)) + (IF n < Len(b) THEN b[n + 1] ELSE 0)

total(c) == c.pass + c.fail + c.warn + c.totalAxeViolations

ReportScore(c) ==
    IF total(c) = 0 THEN 100 ELSE MathRound(Times100(Quotient(c.pass, total(c))))

ClampBelow100(s) == Max(0, Min(99, s))

scoreClamp(s) == Max(0, Min(100, s))

NoScore == [score |-> -1, scoreClamp |-> -1]

InitCalc(on) ==
    /\ counts \in IF on
                  THEN [pass : 0..MaxPass, fail : 0..MaxFail, warn : 0..MaxWarn,
                        totalAxeViolations : 0..MaxAxe]
                  ELSE {[pass |-> 0, fail |-> 0, warn |-> 0,
                         totalAxeViolations |-> 0]}
    /\ scoreCard = NoScore

\* generateReport, the score shown in the report's header.
ComputeScore ==
    /\ scoreCard = NoScore
    /\ scoreCard' = [score |-> ReportScore(counts),
                     scoreClamp |-> scoreClamp(ReportScore(counts))]
    /\ UNCHANGED counts
    /\ UNCHANGED <<pipelineVars, serverVars, checksVars, runVars, genVars>>

\* C12: the score is 100 when pass + fail + warn + totalAxeViolations is 0 and
\* otherwise 100 * pass / total rounded to the nearest integer, a tie going up;
\* so (0,0,0,0) and (10,0,0,0) give 100, (0,10,0,0) gives 0, (5,5,0,0) gives 50.
C12_ScoreIsRounded ==
    scoreCard # NoScore =>
        LET t == total(counts)
            s == scoreCard.score
        IN  IF t = 0 THEN s = 100
            ELSE /\ 2 * t * s - t <= 200 * counts.pass
                 /\ 200 * counts.pass < 2 * t * s + t

\* C13: the displayed score is an integer between 0 and 100, and clamping
\* never changes the score that was computed.
C13_ClampIsIdentity ==
    scoreCard # NoScore =>
        /\ scoreCard.scoreClamp \in 0..100
        /\ scoreCard.scoreClamp = scoreCard.score

C13_Witness ==
    /\ scoreCard # NoScore
    /\ counts.pass > 0 /\ counts.fail > 0
    /\ scoreCard.scoreClamp \in 1..99


(***************************************************************************)
(* run-tests.js: runCustomChecks.  A page is modelled by what each chapter *)
(* adapter does on it: it throws, or it returns a list of CheckResults.    *)
(***************************************************************************)
\* The chapters array of runCustomChecks.
CustomChapters ==
    <<"semantics", "images", "visualDesign", "responsive", "multimedia",
      "inputMethods", "forms", "dynamicUpdates">>

\* What an adapter does: it throws, or it returns a list of CheckResults.
Throws == [threw |-> TRUE, results |-> <<>>]

Returns(rs) == [threw |-> FALSE, results |-> rs]

Check(id, rule, status, chapter) ==
    [id |-> id, rule |-> rule, status |-> status, message |-> "checked",
     chapter |-> chapter]

\* What each adapter can return on the pages considered.
AdapterReturns ==
    "semantics" :>
        {<<Check("page-title-exists", "Page MUST have a title with text", s,
                 "semantics")>> : s \in {"pass", "fail"}}
    @@ "images" :>
        {<<Check("img-alt",
                 "Informative images MUST have programmatically-discernible alternative text",
                 s, "images")>> : s \in {"pass", "fail"}}
    @@ "visualDesign" :>
        {<<Check("link-differentiation", "Links MUST be visually distinguishable",
                 s, "visualDesign")>> : s \in {"pass", "warn"}}
    @@ "responsive" :>
        {<<Check("no-horizontal-scroll",
                 "Content MUST NOT require horizontal scrolling at 320px width",
                 "pass", "responsive")>>}
    @@ "multimedia" :> {<<>>}
    @@ "inputMethods" :>
        {<<Check("tabindex-positive",
                 "tabindex with positive values SHOULD NOT be used", "pass",
                 "inputMethods")>>}
    @@ "forms" :> {<<>>}
    @@ "dynamicUpdates" :>
        {<<Check("no-auto-refresh", "Page MUST NOT refresh or reload automatically",
                 "pass", "dynamicUpdates"),
           Check("dynamic-announcements",
                 "Dynamic content changes SHOULD be announced (aria-live, etc.)",
                 "info", "dynamicUpdates")>>}

Outcomes(c) == {Throws} \cup {Returns(rs) : rs \in AdapterReturns[c]}

\* The pages: every combination of adapters that throw or return.
Pages ==
    {[url |-> U1,
      adapters |-> "semantics" :> a1 @@ "images" :> a2 @@ "visualDesign" :> a3
                   @@ "responsive" :> a4 @@ "multimedia" :> a5
                   @@ "inputMethods" :> a6 @@ "forms" :> a7
                   @@ "dynamicUpdates" :> a8] :
        a1 \in Outcomes("semantics"), a2 \in Outcomes("images"),
        a3 \in Outcomes("visualDesign"), a4 \in Outcomes("responsive"),
        a5 \in Outcomes("multimedia"), a6 \in Outcomes("inputMethods"),
        a7 \in Outcomes("forms"), a8 \in Outcomes("dynamicUpdates")}

\* { ...r, url }
WithUrl(r, url) ==
    [id |-> r.id, rule |-> r.rule, status |-> r.status, message |-> r.message,
     chapter |-> r.chapter, url |-> url]

\* The CheckResult pushed by the catch clause.
ChapterError(chapterId, url) ==
    [id |-> chapterId \o "-error", rule |-> chapterId \o " checks",
     status |-> "fail", message |-> "adapter threw", chapter |-> chapterId,
     url |-> url]

RunAdapterAbort(all, chapterId, outcome, url) ==
    IF outcome.threw
    THEN <<ChapterError(chapterId, url)>>
    ELSE all \o [i \in 1..Len(outcome.results) |-> WithUrl(outcome.results[i], url)]

\* One iteration of the loop over the chapters: the try and its catch.
RunAdapter(all, chapterId, outcome, url) ==
    IF outcome.threw
    THEN Append(all, ChapterError(chapterId, url))
    ELSE all \o [i \in 1..Len(outcome.results) |-> WithUrl(outcome.results[i], url)]

RECURSIVE RunChapters(_, _, _, _)
RunChapters(all, adapters, url, k) ==
    IF k > Len(CustomChapters) THEN all
    ELSE RunChapters(RunAdapter(all, CustomChapters[k],
                                adapters[CustomChapters[k]], url),
                     adapters, url, k + 1)

runCustomChecks(p, url) == RunChapters(<<>>, p.adapters, url, 1)

InitChecks(on) ==
    /\ page \in IF on THEN Pages
                ELSE {[url |-> "none",
                       adapters |-> [c \in Range(CustomChapters) |-> Returns(<<>>)]]}
    /\ allResults = <<>>
    /\ chapterNo = IF on THEN 1 ELSE Len(CustomChapters) + 1

\* runCustomChecks, one chapter of its loop at a time; it returns allResults
\* once chapterNo has passed the last chapter.
RunChapter ==
    /\ chapterNo <= Len(CustomChapters)
    /\ allResults' = RunAdapter(allResults, CustomChapters[chapterNo],
                                page.adapters[CustomChapters[chapterNo]], page.url)
    /\ chapterNo' = chapterNo + 1
    /\ UNCHANGED page
    /\ UNCHANGED <<pipelineVars, serverVars, calcVars, runVars, genVars>>

ChecksReturned == page.url # "none" /\ chapterNo > Len(CustomChapters)

\* The results of one chapter, in the order they were collected.
OfChapter(all, c) == SelectSeq(all, LAMBDA r : r.chapter = c)

\* C17: runCustomChecks attempts the 8 adapters in the fixed chapter order and
\* returns: a chapter whose adapter throws contributes exactly one CheckResult,
\* '<chapter>-error' with status fail, that chapter and the page's URL; the
\* results of every other adapter are kept, before and after a failure.
C17_EveryChapterAttempted ==
    /\ chapterNo \in 1..(Len(CustomChapters) + 1)
    /\ \A k \in 1..(chapterNo - 1) :
           LET c == CustomChapters[k]
               out == page.adapters[c]
           IN  OfChapter(allResults, c) =
                   IF out.threw
                   THEN <<[id |-> c \o "-error", rule |-> c \o " checks",
                           status |-> "fail", message |-> "adapter threw",
                           chapter |-> c, url |-> page.url]>>
                   ELSE [i \in 1..Len(out.results) |->
                             WithUrl(out.results[i], page.url)]
    /\ \A i, j \in 1..Len(allResults) :
           i < j =>
               \E a, b \in 1..(chapterNo - 1) :
                   /\ a <= b
                   /\ allResults[i].chapter = CustomChapters[a]
                   /\ allResults[j].chapter = CustomChapters[b]

C17_Witness ==
    /\ ChecksReturned
    /\ page.adapters["images"].threw
    /\ ~page.adapters["semantics"].threw
    /\ ~page.adapters["dynamicUpdates"].threw
    /\ \E i \in 1..Len(allResults) : allResults[i].id = "images-error"
    /\ \E i \in 1..Len(allResults) : allResults[i].id = "page-title-exists"
    /\ \E i \in 1..Len(allResults) : allResults[i].id = "dynamic-announcements"


(***************************************************************************)
(* run-tests.js: main, the loop over the submitted URLs.  Every awaited    *)
(* call either returns or rejects; a rejection inside the inner try is     *)
(* taken to its catch clause in the same step.                             *)
(***************************************************************************)
UrlPool == <<U1, U2, U3, "https://example.org/contact">>

\* The suffixes of VIEWPORTS.
VIEWPORTS == <<"laptop", "desktop">>

\* The pages of a run: one on which every adapter returns and nothing fails
\* or warns, and one with a failed check and an adapter that throws.
SitePages ==
    LET CleanPage(p) ==
            \A c \in Range(CustomChapters) :
                /\ ~p.adapters[c].threw
                /\ \A r \in Range(p.adapters[c].results) :
                       r.status \in {"pass", "info"}
        BrokenPage(p) ==
            /\ p.adapters["images"].threw
            /\ \A c \in Range(CustomChapters) \ {"images"} :
                   /\ ~p.adapters[c].threw
                   /\ \A r \in Range(p.adapters[c].results) :
                          r.status = IF r.id = "page-title-exists" THEN "fail"
                                     ELSE IF r.id = "dynamic-announcements"
                                          THEN "info"
                                     ELSE "pass"
    IN  {p \in Pages : CleanPage(p) \/ BrokenPage(p)}

\* What analyze() returns on the pages of a run.
RunScans ==
    { [violations |-> <<>>, incomplete |-> <<>>, passes |-> <<>>],
      [violations |-> <<[id |-> "color-contrast",
                         tags |-> <<"cat.color", "wcag2aa", "wcag143">>]>>,
       incomplete |-> <<>>, passes |-> <<>>] }

\* The report object main starts from; axeResults and screenshots are objects
\* keyed by URL.
EmptyReport ==
    [urls |-> <<>>, axeResults |-> <<>>, customResults |-> <<>>,
     summary |-> [pass |-> 0, fail |-> 0, warn |-> 0], screenshots |-> <<>>]

NoIter == [axeData |-> [url |-> "none"], customData |-> <<>>]

\* The catch clause of the inner try.
PageLoadFailed(rep, url, message) ==
    [rep EXCEPT
        !.customResults = Append(@, [id |-> "page-load", rule |-> "Page load",
                                     status |-> "fail", message |-> message,
                                     url |-> url]),
        !.summary.fail = @ + 1]

StoreNothing(rep, url, data) == rep

\* report.axeResults[url] = axeData
StoreAxeResults(rep, url, data) ==
    [rep EXCEPT !.axeResults = (url :> data) @@ @]

\* report.urls.push(url)
PushUrl(rep, url) == [rep EXCEPT !.urls = Append(@, url)]

\* customData.forEach: one counter of the summary per result.
RECURSIVE Tally(_, _)
Tally(summary, customData) ==
    IF customData = <<>> THEN summary
    ELSE LET r == Head(customData)
         IN  Tally(IF r.status = "pass" THEN [summary EXCEPT !.pass = @ + 1]
                   ELSE IF r.status = "fail" THEN [summary EXCEPT !.fail = @ + 1]
                   ELSE [summary EXCEPT !.warn = @ + 1],
                   Tail(customData))

AddCustomResults(rep, customData) ==
    [rep EXCEPT !.customResults = @ \o customData,
                !.summary = Tally(@, customData)]

HasIssuesAlways(data, customData) == TRUE

hasIssues(data, customData) ==
    \/ Len(data.violations) > 0
    \/ \E i \in 1..Len(customData) : customData[i].status \in {"fail", "warn"}

\* The screenshots taken, for the viewports whose screenshot succeeded.
ScreenshotsForUrl(urlIndex, taken) ==
    [k \in 1..Len(taken) |-> [file |-> <<"screenshot", urlIndex, taken[k]>>,
                              label |-> taken[k]]]

StoreScreenshots(rep, url, shots) ==
    IF Len(shots) > 0
    THEN [rep EXCEPT !.screenshots = (url :> shots) @@ @]
    ELSE rep

\* on: main has launched the browser and is about to enter the loop.
InitRun(on) ==
    /\ submitted \in IF on
                     THEN {SubSeq(UrlPool, 1, n) :
                               n \in 1..Min(MaxUrls, Len(UrlPool))}
                     ELSE {<<>>}
    /\ urlNo = 1
    /\ pc = IF on THEN "newContext" ELSE "done"
    /\ report = EmptyReport
    /\ iter = NoIter
    /\ context = 0
    /\ browser = on
    /\ persisted = <<>>
    /\ htmlReports = <<>>

Url == submitted[urlNo]

\* browser.newContext(); if it rejects, the outer finally closes the browser
\* and main ends without a report.
NewContext ==
    /\ pc = "newContext"
    /\ iter' = NoIter
    /\ \/ context' = context + 1 /\ pc' = "newPage" /\ UNCHANGED browser
       \/ browser' = FALSE /\ pc' = "aborted" /\ UNCHANGED context
    /\ UNCHANGED <<submitted, urlNo, report, persisted, htmlReports>>
    /\ UNCHANGED <<pipelineVars, serverVars, calcVars, checksVars, genVars>>

\* context.newPage(), outside the inner try.
NewPage ==
    /\ pc = "newPage"
    /\ \/ pc' = "goto" /\ UNCHANGED browser
       \/ browser' = FALSE /\ pc' = "aborted"
    /\ UNCHANGED <<submitted, urlNo, report, iter, context, persisted, htmlReports>>
    /\ UNCHANGED <<pipelineVars, serverVars, calcVars, checksVars, genVars>>

\* page.goto and waitForLoadState.
Goto ==
    /\ pc = "goto"
    /\ \/ pc' = "scan" /\ UNCHANGED report
       \/ /\ report' = PageLoadFailed(report, Url, "navigation failed")
          /\ pc' = "close"
    /\ UNCHANGED <<submitted, urlNo, iter, context, browser, persisted, htmlReports>>
    /\ UNCHANGED <<pipelineVars, serverVars, calcVars, checksVars, genVars>>

\* const axeData = await runAxeScan(page, url)
Scan ==
    /\ pc = "scan"
    /\ \/ \E res \in RunScans :
              /\ iter' = [iter EXCEPT !.axeData = runAxeScan(Url, res)]
              /\ pc' = "store"
              /\ UNCHANGED report
       \/ /\ report' = PageLoadFailed(report, Url, "scan failed")
          /\ pc' = "close"
          /\ UNCHANGED iter
    /\ UNCHANGED <<submitted, urlNo, context, browser, persisted, htmlReports>>
    /\ UNCHANGED <<pipelineVars, serverVars, calcVars, checksVars, genVars>>

StoreScan ==
    /\ pc = "store"
    /\ report' = StoreAxeResults(report, Url, iter.axeData)
    /\ pc' = "push"
    /\ UNCHANGED <<submitted, urlNo, iter, context, browser, persisted, htmlReports>>
    /\ UNCHANGED <<pipelineVars, serverVars, calcVars, checksVars, genVars>>

PushTestedUrl ==
    /\ pc = "push"
    /\ report' = PushUrl(report, Url)
    /\ pc' = "checks"
    /\ UNCHANGED <<submitted, urlNo, iter, context, browser, persisted, htmlReports>>
    /\ UNCHANGED <<pipelineVars, serverVars, calcVars, checksVars, genVars>>

\* runCustomChecks, the push of its results and the summary loop.
CustomChecks ==
    /\ pc = "checks"
    /\ \E p \in SitePages :
           LET customData == runCustomChecks(p, Url)
           IN  /\ iter' = [iter EXCEPT !.customData = customData]
               /\ report' = AddCustomResults(report, customData)
               /\ pc' = IF hasIssues(iter.axeData, customData)
                        THEN "screenshots" ELSE "close"
    /\ UNCHANGED <<submitted, urlNo, context, browser, persisted, htmlReports>>
    /\ UNCHANGED <<pipelineVars, serverVars, calcVars, checksVars, genVars>>

\* The screenshots of a page with issues: creating the directory may throw,
\* inside the inner try; each viewport's screenshot may fail on its own.
Screenshots ==
    /\ pc = "screenshots"
    /\ \/ \E taken \in {<<>>, <<VIEWPORTS[1]>>, <<VIEWPORTS[2]>>, VIEWPORTS} :
              report' = StoreScreenshots(report, Url,
                            ScreenshotsForUrl(Len(report.urls) - 1, taken))
       \/ report' = PageLoadFailed(report, Url, "mkdir failed")
    /\ pc' = "close"
    /\ UNCHANGED <<submitted, urlNo, iter, context, browser, persisted, htmlReports>>
    /\ UNCHANGED <<pipelineVars, serverVars, calcVars, checksVars, genVars>>

\* finally: context.close(), then the next URL.
CloseContext ==
    /\ pc = "close"
    /\ context' = context - 1
    /\ IF urlNo < Len(submitted)
       THEN urlNo' = urlNo + 1 /\ pc' = "newContext"
       ELSE pc' = "closeBrowser" /\ UNCHANGED urlNo
    /\ UNCHANGED <<submitted, report, iter, browser, persisted, htmlReports>>
    /\ UNCHANGED <<pipelineVars, serverVars, calcVars, checksVars, genVars>>

\* The outer finally: browser.close().
CloseBrowser ==
    /\ pc = "closeBrowser"
    /\ browser' = FALSE
    /\ pc' = "persist"
    /\ UNCHANGED <<submitted, urlNo, report, iter, context, persisted, htmlReports>>
    /\ UNCHANGED <<pipelineVars, serverVars, calcVars, checksVars, genVars>>

\* The property names of a CheckResult, in the order the code writes them.
ResultKeys == <<"id", "rule", "status", "message", "chapter", "url">>

\* A JSON object as the text holds it: the (name, value) pairs of the
\* properties the object has, in order.
Members(r, keys) ==
    SelectSeq([i \in 1..Len(keys) |->
                  <<keys[i], IF keys[i] \in DOMAIN r THEN r[keys[i]] ELSE "">>],
              LAMBDA m : m[1] \in DOMAIN r)

\* The object a sequence of (name, value) pairs stands for.
ObjectOf(members) ==
    [k \in {members[i][1] : i \in 1..Len(members)} |->
        members[CHOOSE i \in 1..Len(members) : members[i][1] = k][2]]

\* An object keyed by URL as the text holds it, and back.
Entries(byUrl) == {<<url, byUrl[url]>> : url \in DOMAIN byUrl}

FromEntries(entries) ==
    [url \in {en[1] : en \in entries} |->
        (CHOOSE en \in entries : en[1] = url)[2]]

JSON_stringifyLosingMessages(rep) ==
    <<rep.urls, Entries(rep.axeResults),
      [i \in 1..Len(rep.customResults) |->
          Members(rep.customResults[i], <<"id", "rule", "status", "chapter", "url">>)],
      Members(rep.summary, <<"pass", "fail", "warn">>),
      Entries(rep.screenshots)>>

\* JSON.stringify(report, null, 2): the text of the results file.
JSON_stringify(rep) ==
    <<rep.urls, Entries(rep.axeResults),
      [i \in 1..Len(rep.customResults) |->
          Members(rep.customResults[i], ResultKeys)],
      Members(rep.summary, <<"pass", "fail", "warn">>),
      Entries(rep.screenshots)>>

\* JSON.parse(readFileSync(resultsFile, 'utf8'))
JSON_parse(text) ==
    [urls |-> text[1],
     axeResults |-> FromEntries(text[2]),
     customResults |-> [i \in 1..Len(text[3]) |-> ObjectOf(text[3][i])],
     summary |-> ObjectOf(text[4]),
     screenshots |-> FromEntries(text[5])]

WriteFileTwice(file, text) == file \o <<text, text>>

\* writeFileSync: the file takes the text.
writeFileSync(file, text) == Append(file, text)

\* writeFileSync(RESULTS_FILE, JSON.stringify(report)); the HTML report is
\* generated next when the run was started with --report.
Persist ==
    /\ pc = "persist"
    /\ persisted' = writeFileSync(persisted, JSON_stringify(report))
    /\ pc' \in {"report", "done"}
    /\ UNCHANGED <<submitted, urlNo, report, iter, context, browser, htmlReports>>
    /\ UNCHANGED <<pipelineVars, serverVars, calcVars, checksVars, genVars>>

WithStatus(rs, s) == Len(SelectSeq(rs, LAMBDA r : r.status = s))

PageLoadEntries(rep, url) ==
    SelectSeq(rep.customResults, LAMBDA r : r.id = "page-load" /\ r.url = url)

\* C14: at the end of a run and after each URL, summary.pass, summary.fail and
\* summary.warn are the numbers of customResults entries with status pass,
\* fail and warn; audit violations do not change the summary.
C14_SummaryCountsStatuses ==
    pc \in {"newContext", "closeBrowser", "persist", "done"} =>
        /\ report.summary.pass = WithStatus(report.customResults, "pass")
        /\ report.summary.fail = WithStatus(report.customResults, "fail")
        /\ report.summary.warn = WithStatus(report.customResults, "warn")

\* i and j are places of the same URLs in order: us is a subsequence of vs.
IsSubSeq(us, vs) ==
    \E f \in [1..Len(us) -> 1..Len(vs)] :
        /\ \A i \in 1..Len(us) : vs[f[i]] = us[i]
        /\ \A i, j \in 1..Len(us) : i < j => f[i] < f[j]

UrlsHaveScans(rep, tested) ==
    /\ \A i \in 1..Len(rep.urls) : rep.urls[i] \in DOMAIN rep.axeResults
    /\ IsSubSeq(rep.urls, tested)

\* C15: in every state of a run and in the persisted report, every URL of
\* report.urls has an entry in report.axeResults, and report.urls lists the
\* URLs whose scan succeeded, in the order in which they were tested.
C15_UrlsHaveScans ==
    /\ UrlsHaveScans(report, SubSeq(submitted, 1, urlNo))
    /\ pc # "push" => Range(report.urls) = DOMAIN report.axeResults
    /\ \A k \in 1..Len(persisted) :
           /\ UrlsHaveScans(JSON_parse(persisted[k]), submitted)
           /\ Range(JSON_parse(persisted[k]).urls)
                  = DOMAIN JSON_parse(persisted[k]).axeResults

C15_Witness ==
    /\ pc = "done"
    /\ Len(submitted) = MaxUrls
    /\ Len(persisted) = 1
    /\ JSON_parse(persisted[1]).urls = <<submitted[MaxUrls]>>

\* C16: after a run over distinct URLs every submitted URL is either in
\* report.urls with an axeResults entry and without a 'page-load' entry, or
\* absent from report.urls and from axeResults with exactly one 'page-load'
\* entry of status fail, whatever step of its processing threw.
C16_LoadedOrPageLoad ==
    pc = "done" =>
        \A i \in 1..Len(submitted) :
            LET url == submitted[i]
                loaded == /\ url \in Range(report.urls)
                          /\ url \in DOMAIN report.axeResults
                          /\ PageLoadEntries(report, url) = <<>>
                failed == /\ url \notin Range(report.urls)
                          /\ url \notin DOMAIN report.axeResults
                          /\ Len(PageLoadEntries(report, url)) = 1
                          /\ PageLoadEntries(report, url)[1].status = "fail"
            IN  (loaded \/ failed) /\ ~(loaded /\ failed)


(***************************************************************************)
(* generate-report: the disability statistics and the alerts of the        *)
(* technical report.                                                       *)
(***************************************************************************)
DISABILITY_MAP ==
    "page-title-exists" :> <<"Blindness", "Low Vision", "Reading Disabilities", "Cognitive Disabilities">>
    @@ "html-lang" :> <<"Blindness", "Reading Disabilities", "Cognitive Disabilities">>
    @@ "landmarks-present" :> <<"Blindness", "Low Vision", "Cognitive Disabilities">>
    @@ "single-main" :> <<"Blindness", "Low Vision", "Cognitive Disabilities">>
    @@ "heading-structure" :> <<"Blindness", "Low Vision", "Reading Disabilities", "Cognitive Disabilities">>
    @@ "link-text" :> <<"Blindness", "Low Vision", "Reading Disabilities">>
    @@ "link-meaningful" :> <<"Blindness", "Low Vision", "Reading Disabilities", "Cognitive Disabilities">>
    @@ "skip-link" :> <<"Blindness", "Dexterity/Motor Disabilities">>
    @@ "table-headers" :> <<"Blindness", "Low Vision", "Reading Disabilities", "Cognitive Disabilities">>
    @@ "list-markup" :> <<"Blindness", "Low Vision", "Reading Disabilities", "Cognitive Disabilities">>
    @@ "iframe-titles" :> <<"Blindness", "Low Vision", "Cognitive Disabilities">>
    @@ "unique-ids" :> <<"Blindness", "Cognitive Disabilities">>
    @@ "img-alt" :> <<"Blindness", "Low Vision", "Deafblindness">>
    @@ "img-alt-length" :> <<"Blindness", "Low Vision", "Deafblindness", "Cognitive Disabilities">>
    @@ "svg-role" :> <<"Blindness", "Low Vision", "Deafblindness">>
    @@ "svg-accessible-name" :> <<"Blindness", "Low Vision", "Deafblindness">>
    @@ "canvas-alt" :> <<"Blindness", "Low Vision", "Deafblindness">>
    @@ "image-map-alt" :> <<"Blindness", "Low Vision", "Deafblindness">>
    @@ "link-differentiation" :> <<"Colorblindness", "Low Vision">>
    @@ "focus-indicator" :> <<"Low Vision", "Dexterity/Motor Disabilities", "Blindness">>
    @@ "no-horizontal-scroll" :> <<"Low Vision", "Dexterity/Motor Disabilities">>
    @@ "viewport-zoom" :> <<"Low Vision", "Dexterity/Motor Disabilities">>
    @@ "video-captions" :> <<"Deafness and Hard-of-Hearing", "Deafblindness">>
    @@ "video-autoplay" :> <<"Deafness and Hard-of-Hearing", "Cognitive Disabilities">>
    @@ "audio-autoplay" :> <<"Deafness and Hard-of-Hearing">>
    @@ "flash-alternative" :> <<"Blindness", "Deafness and Hard-of-Hearing">>
    @@ "tabindex-positive" :> <<"Dexterity/Motor Disabilities", "Blindness">>
    @@ "touch-target-size" :> <<"Dexterity/Motor Disabilities", "Low Vision">>
    @@ "form-labels" :> <<"Blindness", "Cognitive Disabilities", "Reading Disabilities">>
    @@ "placeholder-not-only-label" :> <<"Blindness", "Cognitive Disabilities", "Reading Disabilities">>
    @@ "no-auto-refresh" :> <<"Cognitive Disabilities", "Dexterity/Motor Disabilities">>
    @@ "dynamic-announcements" :> <<"Blindness", "Cognitive Disabilities">>
    @@ "page-load" :> <<"Various">>

ALL_DISABILITIES ==
    <<"Blindness", "Low Vision", "Colorblindness", "Deafness and Hard-of-Hearing",
      "Deafblindness", "Dexterity/Motor Disabilities", "Speech Disabilities",
      "Cognitive Disabilities", "Reading Disabilities", "Seizure Disorders",
      "Various">>

\* The disabilities field of each item.
MANUAL_VERIFICATION_ITEMS ==
    <<<<"Blindness", "Low Vision", "Reading Disabilities", "Cognitive Disabilities">>,
      <<"Blindness", "Low Vision", "Reading Disabilities", "Cognitive Disabilities">>,
      <<"Blindness", "Low Vision", "Deafblindness">>,
      <<"Low Vision", "Colorblindness">>,
      <<"Colorblindness", "Low Vision">>,
      <<"Blindness", "Dexterity/Motor Disabilities">>,
      <<"Blindness", "Dexterity/Motor Disabilities", "Low Vision">>,
      <<"Dexterity/Motor Disabilities", "Low Vision">>,
      <<"Blindness", "Cognitive Disabilities", "Reading Disabilities">>,
      <<"Blindness", "Cognitive Disabilities">>,
      <<"Seizure Disorders">>,
      <<"Deafness and Hard-of-Hearing", "Deafblindness">>,
      <<"Cognitive Disabilities">>>>

ASSISTIVE_TECH_ITEMS ==
    <<<<"Blindness", "Low Vision">>,
      <<"Blindness", "Low Vision">>,
      <<"Blindness", "Cognitive Disabilities">>,
      <<"Blindness", "Dexterity/Motor Disabilities">>,
      <<"Blindness", "Dexterity/Motor Disabilities", "Low Vision">>,
      <<"Blindness", "Dexterity/Motor Disabilities">>,
      <<"Low Vision">>,
      <<"Low Vision">>,
      <<"Cognitive Disabilities">>,
      <<"Dexterity/Motor Disabilities", "Low Vision">>>>

\* The reports main writes for the first URLs of UrlPool, each URL failing to
\* load or being scanned and checked.
UrlOutcomes ==
    {[loaded |-> FALSE]}
    \cup {[loaded |-> TRUE, page |-> p, scan |-> s] : p \in SitePages, s \in RunScans}

RECURSIVE ReportAfter(_, _, _)
ReportAfter(rep, outcomes, k) ==
    IF k > Len(outcomes) THEN rep
    ELSE LET url == UrlPool[k]
             o == outcomes[k]
         IN  ReportAfter(
                 IF o.loaded
                 THEN AddCustomResults(
                          PushUrl(StoreAxeResults(rep, url, runAxeScan(url, o.scan)),
                                  url),
                          runCustomChecks(o.page, url))
                 ELSE PageLoadFailed(rep, url, "navigation failed"),
                 outcomes, k + 1)

GenReports ==
    {ReportAfter(EmptyReport, o, 1) : o \in SeqsUpTo(UrlOutcomes, MaxGenUrls) \ {<<>>}}

\* DISABILITY_MAP[r.id] || ['Various']
CategoriesOf(id) ==
    IF id \in DOMAIN DISABILITY_MAP THEN DISABILITY_MAP[id] ELSE <<"Various">>

\* forEach d: if (disabilityStats[d] !== undefined) disabilityStats[d]++
Increase(stats, ds) ==
    [d \in DOMAIN stats |->
        stats[d] + Cardinality({i \in 1..Len(ds) : ds[i] = d})]

CountResultTwice(stats, r) == Increase(Increase(stats, CategoriesOf(r.id)), CategoriesOf(r.id))

CountResult(stats, r) == Increase(stats, CategoriesOf(r.id))

\* items.forEach: every disability of every item.
CountItems(stats, items) ==
    LET places == UNION {{i} \X (1..Len(items[i])) : i \in 1..Len(items)}
    IN  [d \in DOMAIN stats |->
            stats[d] + Cardinality({p \in places : items[p[1]][p[2]] = d})]

CountAxeOnce(stats, data, urlCount) ==
    [stats EXCEPT !["Various"] = @ + Len(data.violations)]

\* One audit result: its violations times the number of tested URLs.
CountAxe(stats, data, urlCount) ==
    [stats EXCEPT !["Various"] = @ + Len(data.violations) * Max(1, urlCount)]

loadErrors(data) == SelectSeq(data.customResults, LAMBDA r : r.id = "page-load")

\* escapeHtml(r[name]): the empty text for a property the object lacks; the
\* texts of the model hold none of the characters escapeHtml replaces.
escapeHtml(r, name) == IF name \in DOMAIN r THEN r[name] ELSE ""

\* The alert of the report with its list of load errors and, for every chapter,
\* the counts of the summary, the URLs it has a section for, the rows of each section's table and the
\* audit violations listed for each URL.
Render(data) ==
    [alert |-> IF Len(loadErrors(data)) > 0 THEN "No pages could be loaded"
               ELSE IF Len(data.urls) = 0 THEN "No pages were tested"
               ELSE "none",
     errors |-> [i \in 1..Len(loadErrors(data)) |->
                    <<loadErrors(data)[i].url, escapeHtml(loadErrors(data)[i], "message")>>],
     summary |-> data.summary,
     urlSections |-> [c \in Range(CHECKLIST_CHAPTERS) |-> data.urls],
     rows |-> [c \in Range(CHECKLIST_CHAPTERS) |->
                  [k \in 1..Len(data.urls) |->
                      LET custom == SelectSeq(data.customResults, LAMBDA r :
                                        /\ "chapter" \in DOMAIN r
                                        /\ r.chapter = c
                                        /\ r.url = data.urls[k])
                      IN  [i \in 1..Len(custom) |->
                              <<escapeHtml(custom[i], "rule"), custom[i].status,
                                escapeHtml(custom[i], "message")>>]]],
     violations |-> [k \in 1..Len(data.urls) |->
                        IF data.urls[k] \in DOMAIN data.axeResults
                        THEN [i \in 1..Len(data.axeResults[data.urls[k]].violations) |->
                                 data.axeResults[data.urls[k]].violations[i].id]
                        ELSE <<>>]]

\* on: generateReport is called with a report of main.
InitGen(on) ==
    /\ genData \in IF on THEN GenReports ELSE {EmptyReport}
    /\ disabilityStats = <<>>
    /\ genPc = IF on THEN "start" ELSE "done"
    /\ genIdx = 1
    /\ html = [alert |-> "none", urlSections |-> <<>>]

\* ALL_DISABILITIES.forEach: every category starts at 0.
StartStats ==
    /\ genPc = "start"
    /\ disabilityStats' = [d \in Range(ALL_DISABILITIES) |-> 0]
    /\ genPc' = "custom"
    /\ UNCHANGED <<genData, genIdx, html>>
    /\ UNCHANGED <<pipelineVars, serverVars, calcVars, checksVars, runVars>>

\* customResults.forEach, one CheckResult.
CountCheckResult ==
    /\ genPc = "custom"
    /\ genIdx <= Len(genData.customResults)
    /\ disabilityStats' = CountResult(disabilityStats, genData.customResults[genIdx])
    /\ genIdx' = genIdx + 1
    /\ UNCHANGED <<genData, genPc, html>>
    /\ UNCHANGED <<pipelineVars, serverVars, calcVars, checksVars, runVars>>

\* The items of the two manual checklists.
CountManualItems ==
    /\ genPc = "custom"
    /\ genIdx > Len(genData.customResults)
    /\ disabilityStats' =
           CountItems(disabilityStats,
                      MANUAL_VERIFICATION_ITEMS \o ASSISTIVE_TECH_ITEMS)
    /\ genPc' = "axe"
    /\ genIdx' = 1
    /\ UNCHANGED <<genData, html>>
    /\ UNCHANGED <<pipelineVars, serverVars, calcVars, checksVars, runVars>>

\* Object.values(axeResults).forEach, one URL's audit result; the keys of
\* axeResults were inserted in the order of urls.
CountAxeResult ==
    /\ genPc = "axe"
    /\ genIdx <= Len(genData.urls)
    /\ disabilityStats' = CountAxe(disabilityStats,
                                   genData.axeResults[genData.urls[genIdx]],
                                   Len(genData.urls))
    /\ genIdx' = genIdx + 1
    /\ UNCHANGED <<genData, genPc, html>>
    /\ UNCHANGED <<pipelineVars, serverVars, calcVars, checksVars, runVars>>

RenderReport ==
    /\ genPc = "axe"
    /\ genIdx > Len(genData.urls)
    /\ html' = Render(genData)
    /\ genPc' = "done"
    /\ UNCHANGED <<genData, disabilityStats, genIdx>>
    /\ UNCHANGED <<pipelineVars, serverVars, calcVars, checksVars, runVars>>

GenerateReport ==
    \/ StartStats \/ CountCheckResult \/ CountManualItems \/ CountAxeResult
    \/ RenderReport

\* The categories the catalog lists for a check id, 'Various' for an id that
\* is not in the catalog.
Listed(id) ==
    IF id \in DOMAIN DISABILITY_MAP THEN Range(DISABILITY_MAP[id]) ELSE {"Various"}

\* How many of the first n CheckResults count toward category d.
ResultsToward(d, n) ==
    Cardinality({i \in 1..n : d \in Listed(genData.customResults[i].id)})

ItemsToward(d) ==
    Cardinality({i \in 1..Len(MANUAL_VERIFICATION_ITEMS) :
                     d \in Range(MANUAL_VERIFICATION_ITEMS[i])})
    + Cardinality({i \in 1..Len(ASSISTIVE_TECH_ITEMS) :
                       d \in Range(ASSISTIVE_TECH_ITEMS[i])})

RECURSIVE ViolationsOfFirst(_)
ViolationsOfFirst(n) ==
    IF n = 0 THEN 0
    ELSE ViolationsOfFirst(n - 1)
         + Len(genData.axeResults[genData.urls[n]].violations)

\* C18: while the CheckResults are counted, every category stands at the number
\* of CheckResults counted so far whose check id lists it in the catalog, with
\* 'Various' as the only category of an id the catalog does not have: one per
\* CheckResult and listed category, and nothing for any other category.
C18_OnePerResultAndCategory ==
    genPc = "custom" =>
        /\ genIdx \in 1..(Len(genData.customResults) + 1)
        /\ \A d \in DOMAIN disabilityStats :
               disabilityStats[d] = ResultsToward(d, genIdx - 1)

C18_Witness ==
    /\ genPc = "custom"
    /\ genIdx = Len(genData.customResults) + 1
    /\ Len(genData.urls) = 2
    /\ Len(SelectSeq(genData.customResults,
                     LAMBDA r : r.id = "link-differentiation")) = 2
    /\ disabilityStats["Colorblindness"] = 2
    /\ \E i \in 1..Len(genData.customResults) :
           genData.customResults[i].id = "images-error"
    /\ disabilityStats["Various"] > 0

\* C19: every known category is a key of the statistics, 0 when nothing counts
\* toward it, and each URL's audit result adds its number of violations times
\* max(1, number of tested URLs) to 'Various' and nothing to any other category.
C19_AuditCountsTowardVarious ==
    /\ genPc # "start" => DOMAIN disabilityStats = Range(ALL_DISABILITIES)
    /\ genPc = "custom" /\ genIdx = 1 =>
           \A d \in Range(ALL_DISABILITIES) : disabilityStats[d] = 0
    /\ genPc \in {"axe", "done"} =>
           \A d \in Range(ALL_DISABILITIES) :
               disabilityStats[d] =
                   ResultsToward(d, Len(genData.customResults)) + ItemsToward(d)
                   + IF d = "Various"
                     THEN ViolationsOfFirst(IF genPc = "done" THEN Len(genData.urls)
                                            ELSE genIdx - 1)
                          * Max(1, Len(genData.urls))
                     ELSE 0
    /\ genPc = "done" =>
           \A d \in Range(ALL_DISABILITIES) :
               (/\ ResultsToward(d, Len(genData.customResults)) = 0
                /\ ItemsToward(d) = 0
                /\ d = "Various" => ViolationsOfFirst(Len(genData.urls)) = 0)
               => disabilityStats[d] = 0

C19_Witness ==
    /\ genPc = "done"
    /\ Len(genData.urls) = 2
    /\ ViolationsOfFirst(2) = 2
    /\ disabilityStats["Various"] = 4
    /\ disabilityStats["Speech Disabilities"] = 0

\* C20: the 'No pages could be loaded' alert is rendered only when every
\* submitted URL failed to load, that is when urls is empty and there is a
\* 'page-load' result; when some URLs loaded and others failed the alert is
\* not rendered and the chapter sections of the loaded URLs are.
C20_AlertOnlyWhenNothingLoaded ==
    genPc = "done" /\ html.urlSections # <<>> =>
        /\ html.alert = "No pages could be loaded" =>
               genData.urls = <<>> /\ Len(loadErrors(genData)) > 0
        /\ genData.urls # <<>> /\ Len(loadErrors(genData)) > 0 =>
               /\ html.alert # "No pages could be loaded"
               /\ \A c \in Range(CHECKLIST_CHAPTERS) :
                      html.urlSections[c] = genData.urls


\* C21: every CheckResult a run puts into customResults, whether it comes from
\* an adapter, from an adapter that threw or from a page that failed to load,
\* has a chapter that is a key of CHECKLIST_CHAPTERS and a status among pass,
\* fail, warn and info.
C21_ChapterAndStatusClosed ==
    \A i \in 1..Len(report.customResults) :
        LET r == report.customResults[i]
        IN  /\ "chapter" \in DOMAIN r
            /\ r.chapter \in Range(CHECKLIST_CHAPTERS)
            /\ r.status \in {"pass", "fail", "warn", "info"}

\* if (generateReport) genReport(report, { outputDir }): the report is rendered
\* from the object in memory.
GenerateHtml ==
    /\ pc = "report"
    /\ htmlReports' = Append(htmlReports, Render(report))
    /\ pc' = "done"
    /\ UNCHANGED <<submitted, urlNo, report, iter, context, browser, persisted>>
    /\ UNCHANGED <<pipelineVars, serverVars, calcVars, checksVars, genVars>>

Main ==
    \/ NewContext \/ NewPage \/ Goto \/ Scan \/ StoreScan \/ PushTestedUrl
    \/ CustomChecks \/ Screenshots \/ CloseContext \/ CloseBrowser \/ Persist
    \/ GenerateHtml

Processed(url) ==
    \/ url \in Range(report.urls)
    \/ \E i \in 1..Len(report.customResults) :
           /\ report.customResults[i].id = "page-load"
           /\ report.customResults[i].url = url

IssuesOf(url) ==
    SelectSeq(report.customResults,
              LAMBDA r : r.url = url /\ r.status \in {"fail", "warn"})

\* C28: report.screenshots has an entry for a URL only if the URL was loaded
\* and is in report.urls, and the URL had an audit violation or a custom
\* result with status fail or warn; the entry holds at least one screenshot.
C28_ScreenshotsOnlyForIssues ==
    \A url \in DOMAIN report.screenshots :
        /\ url \in Range(report.urls)
        /\ url \in DOMAIN report.axeResults
        /\ Len(report.screenshots[url]) > 0
        /\ \/ Len(report.axeResults[url].violations) > 0
           \/ Len(IssuesOf(url)) > 0

\* A finished run with screenshots for one URL and none for another URL that
\* was loaded and had neither a violation nor a fail or warn result.
C28_Witness ==
    /\ pc = "done"
    /\ \E u, v \in Range(report.urls) :
           /\ u \in DOMAIN report.screenshots
           /\ v \notin DOMAIN report.screenshots
           /\ Len(report.axeResults[v].violations) = 0
           /\ Len(IssuesOf(v)) = 0

(***************************************************************************)
(* server.js: POST /api/run, the events of the child process it spawns, the *)
(* polling for the report and GET /api/status/:id.  A status of runStatus   *)
(* is modelled by its status and error; its urls count never changes.       *)
(***************************************************************************)
MaxJobs == 1        \* most jobs POST /api/run accepts in one life of the server

\* The ids uuidv4().slice(0, 8) gives to the jobs of this life of the server,
\* and the ids of report directories left by an earlier one.
JobIds == 1..MaxJobs
StaleIds == {0}
AllIds == StaleIds \cup JobIds

\* pollForReport sets a timer while attempts < 5.
MaxAttempts == 5

NeverFinish(rs, id, status, error) == rs

\* runStatus.set(id, { status, urls, error })
finish(rs, id, status, error) ==
    (id :> [status |-> status, error |-> error]) @@ rs

ExistsAlways(files, id) == TRUE

\* existsSync(join(reportDir, file))
existsSync(files, id) == id \in files

CloseAlwaysDone(code, reportExists) == "done"

\* The branch the 'close' handler takes.
closeOutcome(code, reportExists) ==
    IF code = 0 /\ reportExists THEN "done"
    ELSE IF code = 0 THEN "poll"
    ELSE "error"

NoResponse == [id |-> 0, code |-> 0, status |-> "none"]

\* on: the server has started, with whatever reports an earlier life left.
InitServer(on) ==
    /\ runStatus = <<>>
    /\ child = [id \in JobIds |-> "none"]
    /\ poll = [id \in JobIds |-> 0]
    /\ timer = {}
    /\ fallback = [id \in JobIds |-> "none"]
    /\ reportFiles \in (IF on THEN SUBSET StaleIds ELSE {{}})
    /\ resultsFiles = {}
    /\ statusResponse = NoResponse

\* pollForReport(attempts)
pollForReport(id, attempts) ==
    /\ poll' = [poll EXCEPT ![id] = @ + 1]
    /\ IF existsSync(reportFiles, id)
       THEN /\ runStatus' = finish(runStatus, id, "done", "null")
            /\ timer' = timer \ {id}
            /\ UNCHANGED fallback
       ELSE IF attempts < MaxAttempts
       THEN /\ timer' = timer \cup {id}
            /\ UNCHANGED <<runStatus, fallback>>
       ELSE IF existsSync(resultsFiles, id)
       THEN /\ fallback' = [fallback EXCEPT ![id] = "pending"]
            /\ timer' = timer \ {id}
            /\ UNCHANGED runStatus
       ELSE /\ runStatus' = finish(runStatus, id, "error",
                                   "Report file was not created.")
            /\ timer' = timer \ {id}
            /\ UNCHANGED fallback

\* POST /api/run with at least one URL: the status is set and the child
\* spawned before the id is returned.
PostRun(id) ==
    /\ child[id] = "none"
    /\ id \notin DOMAIN runStatus
    /\ runStatus' = (id :> [status |-> "running", error |-> "null"]) @@ runStatus
    /\ child' = [child EXCEPT ![id] = "running"]
    /\ UNCHANGED <<poll, timer, fallback, reportFiles, resultsFiles, statusResponse>>
    /\ UNCHANGED <<pipelineVars, reportVars, progressVars>>

\* The child writes accessibility-results.json.
ChildWritesResults(id) ==
    /\ child[id] = "running"
    /\ id \notin resultsFiles
    /\ resultsFiles' = resultsFiles \cup {id}
    /\ UNCHANGED <<runStatus, child, poll, timer, fallback, reportFiles, statusResponse>>
    /\ UNCHANGED <<pipelineVars, reportVars, progressVars>>

\* The child writes accessibility-report.html, after the results.
ChildWritesReport(id) ==
    /\ child[id] = "running"
    /\ id \in resultsFiles
    /\ id \notin reportFiles
    /\ reportFiles' = reportFiles \cup {id}
    /\ UNCHANGED <<runStatus, child, poll, timer, fallback, resultsFiles, statusResponse>>
    /\ UNCHANGED <<pipelineVars, reportVars, progressVars>>

\* child.on('error'): the process could not be spawned; its 'close' follows.
ChildError(id) ==
    /\ child[id] = "running"
    /\ id \notin resultsFiles
    /\ runStatus' = finish(runStatus, id, "error", "spawn failed")
    /\ child' = [child EXCEPT ![id] = "failed"]
    /\ UNCHANGED <<poll, timer, fallback, reportFiles, resultsFiles, statusResponse>>
    /\ UNCHANGED <<pipelineVars, reportVars, progressVars>>

\* child.on('close'), with the exit code of the child.
ChildClose(id) ==
    /\ child[id] \in {"running", "failed"}
    /\ \E code \in (IF child[id] = "failed" THEN {-2} ELSE {0, 1}) :
          /\ child' = [child EXCEPT ![id] =
                          IF code = 0 /\ id \in reportFiles THEN "exit0-report"
                          ELSE IF code = 0 THEN "exit0"
                          ELSE IF code = 1 THEN "exit-error"
                          ELSE "exit-spawn"]
          /\ LET outcome == closeOutcome(code, existsSync(reportFiles, id))
             IN  IF outcome = "done"
                 THEN /\ runStatus' = finish(runStatus, id, "done", "null")
                      /\ UNCHANGED <<poll, timer, fallback>>
                 ELSE IF outcome = "poll"
                 THEN pollForReport(id, 0)
                 ELSE /\ runStatus' = finish(runStatus, id, "error",
                                             "stderr or exit code")
                      /\ UNCHANGED <<poll, timer, fallback>>
    /\ UNCHANGED <<reportFiles, resultsFiles, statusResponse>>
    /\ UNCHANGED <<pipelineVars, reportVars, progressVars>>

\* The timer of pollForReport fires.
PollTimer(id) ==
    /\ id \in timer
    /\ pollForReport(id, poll[id])
    /\ UNCHANGED <<child, reportFiles, resultsFiles, statusResponse>>
    /\ UNCHANGED <<pipelineVars, reportVars, progressVars>>

\* The report the child wrote shows up in the directory while the server is
\* still waiting for it.
ReportAppears(id) ==
    /\ child[id] = "exit0"
    /\ id \in timer \/ fallback[id] = "pending"
    /\ id \notin reportFiles
    /\ reportFiles' = reportFiles \cup {id}
    /\ UNCHANGED <<runStatus, child, poll, timer, fallback, resultsFiles, statusResponse>>
    /\ UNCHANGED <<pipelineVars, reportVars, progressVars>>

\* The fallback: import('./generate-report.js') and generateReport(null, ...),
\* which throws, or returns having written the report or not.
FallbackGenerate(id) ==
    /\ fallback[id] = "pending"
    /\ fallback' = [fallback EXCEPT ![id] = "ran"]
    /\ \/ /\ runStatus' = finish(runStatus, id, "error", "generation threw")
          /\ UNCHANGED reportFiles
       \/ \E written \in BOOLEAN :
             /\ reportFiles' = IF written THEN reportFiles \cup {id}
                               ELSE reportFiles
             /\ runStatus' =
                    IF existsSync(reportFiles', id)
                    THEN finish(runStatus, id, "done", "null")
                    ELSE finish(runStatus, id, "error", "Report generation failed.")
    /\ UNCHANGED <<child, poll, timer, resultsFiles, statusResponse>>
    /\ UNCHANGED <<pipelineVars, reportVars, progressVars>>

\* GET /api/status/:id
GetStatus(id) ==
    /\ statusResponse' =
           IF id \in DOMAIN runStatus
           THEN [id |-> id, code |-> 200, status |-> runStatus[id].status]
           ELSE IF existsSync(reportFiles, id)
           THEN [id |-> id, code |-> 200, status |-> "done"]
           ELSE [id |-> id, code |-> 404, status |-> "Run not found"]
    /\ UNCHANGED <<runStatus, child, poll, timer, fallback, reportFiles, resultsFiles>>
    /\ UNCHANGED <<pipelineVars, reportVars, progressVars>>

Server ==
    \/ \E id \in JobIds :
          \/ PostRun(id) \/ ChildWritesResults(id) \/ ChildWritesReport(id)
          \/ ChildError(id) \/ ChildClose(id) \/ PollTimer(id)
          \/ ReportAppears(id) \/ FallbackGenerate(id)
    \/ \E id \in AllIds : GetStatus(id)

(***************************************************************************)
(* server.js: the manual-progress endpoints of one report, with the FTP     *)
(* copy of its file, and the report page applying the saved progress.       *)
(***************************************************************************)
MaxChecked == 2     \* longest checked array a PUT carries

\* The checked arrays of the requests.
Arrays == SeqsUpTo(BOOLEAN, MaxChecked)

\* The checkboxes of the report page: one per manual verification item and
\* one per assistive technology item.
ChecklistLength == Len(MANUAL_VERIFICATION_ITEMS) + Len(ASSISTIVE_TECH_ITEMS)

Unchecked == [i \in 1..ChecklistLength |-> FALSE]

\* manual-progress.json: absent, not JSON, JSON without a checked array, or
\* JSON.stringify({ checked }).
Missing == [kind |-> "missing", checked |-> <<>>]
Garbage == [kind |-> "garbage", checked |-> <<>>]
NoArray == [kind |-> "object", checked |-> <<>>]
Stringified(checked) == [kind |-> "array", checked |-> checked]

DownloadNothing(configured, ok, remote, local) ==
    [raw |-> Missing, local |-> local]

\* ftpDownload: null without FTP_CONFIG or when the transfer fails; otherwise
\* the remote file is downloaded onto the local file and read from there.
ftpDownload(configured, ok, remote, local) ==
    IF configured /\ ok /\ remote.kind # "missing"
    THEN [raw |-> remote, local |-> remote]
    ELSE [raw |-> Missing, local |-> local]

ApplyNothing(boxes, arr) == boxes

\* applyProgress(arr), for an array
applyProgress(boxes, arr) ==
    [i \in 1..Len(boxes) |->
        IF i <= Len(arr) /\ arr[i] = TRUE THEN TRUE ELSE boxes[i]]

\* on: the server runs, with or without FTP_CONFIG, over whatever an earlier
\* life of the server left in the two files; the page has not loaded.
InitProgress(on) ==
    /\ ftp \in (IF on THEN BOOLEAN ELSE {FALSE})
    /\ localProgress \in (IF on THEN {Missing, Garbage, NoArray} ELSE {Missing})
    /\ remoteProgress \in
           (IF on /\ ftp THEN {Missing, Stringified(<<TRUE>>)} ELSE {Missing})
    /\ uploading = FALSE
    /\ lastPut = [some |-> FALSE, checked |-> <<>>]
    /\ progressResponse = [kind |-> "none", code |-> 0, raw |-> "missing",
                           checked |-> <<>>]
    /\ checkboxes = [loaded |-> FALSE, from |-> <<>>, checked |-> Unchecked]

\* GET /api/report/:id/manual-progress with the id of the report
GetProgress ==
    \E ok \in BOOLEAN :
        LET d == ftpDownload(ftp, ok, remoteProgress, localProgress)
            raw == IF d.raw.kind # "missing" THEN d.raw ELSE d.local
        IN  /\ localProgress' = d.local
            /\ progressResponse' =
                   [kind |-> "get", code |-> 200, raw |-> raw.kind,
                    checked |-> IF raw.kind = "array" THEN raw.checked ELSE <<>>]
            /\ UNCHANGED <<ftp, remoteProgress, uploading, lastPut, checkboxes>>
            /\ UNCHANGED <<pipelineVars, reportVars, jobVars>>

\* PUT /api/report/:id/manual-progress with the id of the report and an array
PutProgress(checked) ==
    /\ localProgress' = Stringified(checked)
    /\ uploading' = ftp
    /\ lastPut' = [some |-> TRUE, checked |-> checked]
    /\ progressResponse' = [kind |-> "put", code |-> 200, raw |-> "array",
                            checked |-> <<>>]
    /\ UNCHANGED <<ftp, remoteProgress, checkboxes>>
    /\ UNCHANGED <<pipelineVars, reportVars, jobVars>>

\* A PUT with an invalid id (400), for a report without a directory (404) or
\* without a checked array (400), or whose writeFileSync throws (500).
PutRejected(code) ==
    /\ progressResponse' = [kind |-> "put", code |-> code, raw |-> "missing",
                            checked |-> <<>>]
    /\ UNCHANGED <<ftp, localProgress, remoteProgress, uploading, lastPut,
                   checkboxes>>
    /\ UNCHANGED <<pipelineVars, reportVars, jobVars>>

\* The ftpUpload a PUT started ends: the local file has been uploaded, or the
\* upload failed and only logged the error.
UploadEnds ==
    /\ uploading
    /\ uploading' = FALSE
    /\ \E ok \in BOOLEAN :
          remoteProgress' = IF ok THEN localProgress ELSE remoteProgress
    /\ UNCHANGED <<ftp, localProgress, lastPut, progressResponse, checkboxes>>
    /\ UNCHANGED <<pipelineVars, reportVars, jobVars>>

\* loadProgress of a freshly loaded page, when the answer of its GET arrives.
LoadProgress ==
    /\ progressResponse.kind = "get"
    /\ checkboxes' =
           [loaded |-> TRUE, from |-> progressResponse.checked,
            checked |-> IF Len(progressResponse.checked) > 0
                        THEN applyProgress(Unchecked, progressResponse.checked)
                        ELSE Unchecked]
    /\ UNCHANGED <<ftp, localProgress, remoteProgress, uploading, lastPut,
                   progressResponse>>
    /\ UNCHANGED <<pipelineVars, reportVars, jobVars>>

Progress ==
    \/ GetProgress
    \/ \E checked \in Arrays : PutProgress(checked)
    \/ \E code \in {400, 404, 500} : PutRejected(code)
    \/ UploadEnds
    \/ LoadProgress

Terminal == {"done", "error"}

\* The status of a job, "none" for an id runStatus has no entry for.
StatusOf(id) == IF id \in DOMAIN runStatus THEN runStatus[id].status ELSE "none"

\* C22: applying a saved array to the checkboxes of a freshly loaded page
\* checks exactly the positions at which the array holds true and leaves every
\* position at or beyond its length unchecked; the GET endpoint answers an
\* empty array when it read no file, a file that is not JSON or JSON without a
\* checked array, and the stored array otherwise.
C22_ShortArrayApplied ==
    /\ checkboxes.loaded =>
           /\ Len(checkboxes.checked) = ChecklistLength
           /\ \A i \in 1..ChecklistLength :
                  checkboxes.checked[i] =
                      (i <= Len(checkboxes.from) /\ checkboxes.from[i] = TRUE)
    /\ progressResponse.kind = "get" =>
           /\ progressResponse.code = 200
           /\ progressResponse.raw \in {"missing", "garbage", "object"} =>
                  progressResponse.checked = <<>>

\* A page that applied the array of a GET, shorter than the checklist and with
\* a true and a false entry.
C22_Witness ==
    /\ checkboxes.loaded
    /\ Len(checkboxes.from) = MaxChecked
    /\ Len(checkboxes.from) < ChecklistLength
    /\ \E i, j \in 1..Len(checkboxes.from) :
           checkboxes.from[i] = TRUE /\ checkboxes.from[j] = FALSE
    /\ progressResponse.kind = "get"

\* C26 as stated, for the fallback: once the fallback generation has run the
\* status is done, or error with 'Report generation failed.'.
C26_FallbackDoneOrFailed ==
    \A id \in JobIds :
        fallback[id] = "ran" =>
            \/ runStatus[id].status = "done"
            \/ /\ runStatus[id].status = "error"
               /\ runStatus[id].error = "Report generation failed."

\* The outcomes of a closed child, by exit code and report.
ClosedOutcomes ==
    \A id \in JobIds :
        /\ child[id] = "running" =>
               id \in DOMAIN runStatus /\ runStatus[id].status = "running"
        /\ child[id] = "exit0-report" => runStatus[id].status = "done"
        /\ child[id] \in {"exit-error", "exit-spawn"} =>
               runStatus[id].status = "error"
        /\ poll[id] <= MaxAttempts + 1
        /\ child[id] = "exit0" =>
               \/ runStatus[id].status = "running"
                     /\ (id \in timer \/ fallback[id] = "pending")
               \/ runStatus[id].status = "done" /\ id \in reportFiles
               \/ /\ runStatus[id].status = "error"
                  /\ poll[id] = MaxAttempts + 1
                  /\ \/ fallback[id] = "none"
                        /\ runStatus[id].error = "Report file was not created."
                     \/ fallback[id] = "ran"
                        /\ runStatus[id].error \in
                               {"Report generation failed.", "generation threw"}

\* C26, amended: a job has status running while its child runs; once the child
\* has closed the status becomes done or error: exit code 0 with a report
\* gives done, any other exit code error, and exit code 0 without a report at
\* most 6 existence checks and then done, error 'Report file was not
\* created.', or the fallback generation, which ends in done, in error
\* 'Report generation failed.' or, when it throws, in error with the message
\* of the exception.
C26_EventuallyDoneOrError ==
    /\ []ClosedOutcomes
    /\ \A id \in JobIds :
           (child[id] \notin {"none", "running", "failed"})
               ~> (StatusOf(id) \in Terminal)

\* A job whose child exited with code 0 and no report, that was polled 6 times
\* and whose fallback generation threw.
C26_Witness ==
    \E id \in JobIds :
        /\ child[id] = "exit0"
        /\ poll[id] = MaxAttempts + 1
        /\ fallback[id] = "ran"
        /\ runStatus[id].status = "error"
        /\ runStatus[id].error = "generation threw"

\* C27: once a PUT with an array has been answered ok, every GET answered
\* after it and before the next such PUT returns that array, with or without
\* FTP; a rejected PUT changes neither file.
C27_GetReturnsLastPut ==
    [][/\ (lastPut'.some /\ progressResponse'.kind = "get") =>
              progressResponse'.checked = lastPut'.checked
       /\ (/\ progressResponse' # progressResponse
           /\ progressResponse'.kind = "put"
           /\ progressResponse'.code # 200) =>
              /\ localProgress' = localProgress
              /\ remoteProgress' = remoteProgress]_vars

\* C29: whenever a step sets the status of a job to done, or GET /api/status
\* answers done for an id without a status, the report file of that id exists
\* when the step has checked for it.
C29_DoneOnlyWithReport ==
    [][/\ \A id \in JobIds :
              (/\ id \in DOMAIN runStatus'
               /\ runStatus'[id].status = "done"
               /\ StatusOf(id) # "done") => id \in reportFiles'
       /\ (/\ statusResponse' # statusResponse
           /\ statusResponse'.status = "done"
           /\ statusResponse'.id \notin DOMAIN runStatus)
              => statusResponse'.id \in reportFiles]_vars

\* A job set to done by its fallback generation, and GET /api/status answering
\* done for an id that has a report and no status.
C29_Witness ==
    /\ \E id \in JobIds :
           /\ fallback[id] = "ran"
           /\ runStatus[id].status = "done"
    /\ statusResponse.status = "done"
    /\ statusResponse.id \in StaleIds

\* C30: a status that is done or error keeps its value in every later step.
C30_TerminalStatusIsFinal ==
    [][\A id \in DOMAIN runStatus :
           runStatus[id].status \in Terminal =>
               runStatus'[id].status = runStatus[id].status]_vars

\* A job that failed to spawn: its 'error' event set error, and its 'close'
\* event came after that.
C30_Witness ==
    \E id \in JobIds :
        /\ child[id] = "exit-spawn"
        /\ runStatus[id].status = "error"
        /\ runStatus[id].error = "stderr or exit code"

(***************************************************************************)
(* Specifications: one per operation under study, the others at rest.      *)
(***************************************************************************)
\* The run and the report generator at rest.
ReportAtRest ==
    /\ InitCalc(FALSE) /\ InitChecks(FALSE) /\ InitRun(FALSE) /\ InitGen(FALSE)
    /\ InitServer(FALSE) /\ InitProgress(FALSE)

\* The first pipeline at rest.
PipelineAtRest ==
    /\ InitClassify(FALSE) /\ InitScan(FALSE) /\ InitRemediation(FALSE)
    /\ InitScore(FALSE) /\ InitDeliver("done")

ClassifyInit ==
    /\ InitClassify(TRUE) /\ InitScan(FALSE) /\ InitRemediation(FALSE)
    /\ InitScore(FALSE) /\ InitDeliver("done")
    /\ ReportAtRest

SpecClassify == ClassifyInit /\ [][CategorizeAxeViolation]_vars

ScanInit ==
    /\ InitClassify(FALSE) /\ InitScan(TRUE) /\ InitRemediation(FALSE)
    /\ InitScore(FALSE) /\ InitDeliver("done")
    /\ ReportAtRest

SpecScan == ScanInit /\ [][RunAxeScan]_vars

RemediationInit ==
    /\ InitClassify(FALSE) /\ InitScan(FALSE) /\ InitRemediation(TRUE)
    /\ InitScore(FALSE) /\ InitDeliver("done")
    /\ ReportAtRest

SpecRemediation == RemediationInit /\ [][GetRemediation]_vars

ScoreInit ==
    /\ InitClassify(FALSE) /\ InitScan(FALSE) /\ InitRemediation(FALSE)
    /\ InitScore(TRUE) /\ InitDeliver("done")
    /\ ReportAtRest

SpecScore == ScoreInit /\ [][FixOrderScore]_vars

DeliverInit ==
    /\ InitClassify(FALSE) /\ InitScan(FALSE) /\ InitRemediation(FALSE)
    /\ InitScore(FALSE) /\ InitDeliver("developers")
    /\ ReportAtRest

SpecDeliver == DeliverInit /\ [][GenerateAllDeliverables]_vars

FixInit ==
    /\ InitClassify(FALSE) /\ InitScan(FALSE) /\ InitRemediation(FALSE)
    /\ InitScore(FALSE) /\ InitDeliver("build")
    /\ ReportAtRest

FixNext == BuildFixOrderItems \/ GenerateAllDeliverables

SpecFix == FixInit /\ [][FixNext]_vars

CalcInit ==
    /\ PipelineAtRest
    /\ InitCalc(TRUE) /\ InitChecks(FALSE) /\ InitRun(FALSE) /\ InitGen(FALSE)
    /\ InitServer(FALSE) /\ InitProgress(FALSE)

SpecCalc == CalcInit /\ [][ComputeScore]_vars

ChecksInit ==
    /\ PipelineAtRest
    /\ InitCalc(FALSE) /\ InitChecks(TRUE) /\ InitRun(FALSE) /\ InitGen(FALSE)
    /\ InitServer(FALSE) /\ InitProgress(FALSE)

SpecChecks == ChecksInit /\ [][RunChapter]_vars

RunInit ==
    /\ PipelineAtRest
    /\ InitCalc(FALSE) /\ InitChecks(FALSE) /\ InitRun(TRUE) /\ InitGen(FALSE)
    /\ InitServer(FALSE) /\ InitProgress(FALSE)

SpecRun == RunInit /\ [][Main]_vars

GenInit ==
    /\ PipelineAtRest
    /\ InitCalc(FALSE) /\ InitChecks(FALSE) /\ InitRun(FALSE) /\ InitGen(TRUE)
    /\ InitServer(FALSE) /\ InitProgress(FALSE)

SpecGen == GenInit /\ [][GenerateReport]_vars

ServerInit ==
    /\ PipelineAtRest
    /\ InitCalc(FALSE) /\ InitChecks(FALSE) /\ InitRun(FALSE) /\ InitGen(FALSE)
    /\ InitServer(TRUE) /\ InitProgress(FALSE)

SpecServer == ServerInit /\ [][Server]_vars

\* Timers fire and the import of the fallback settles.
SpecServerFair ==
    /\ SpecServer
    /\ \A id \in JobIds :
           WF_vars(PollTimer(id)) /\ WF_vars(FallbackGenerate(id))

ProgressInit ==
    /\ PipelineAtRest
    /\ InitCalc(FALSE) /\ InitChecks(FALSE) /\ InitRun(FALSE) /\ InitGen(FALSE)
    /\ InitServer(FALSE) /\ InitProgress(TRUE)

SpecProgress == ProgressInit /\ [][Progress]_vars

====
